---- MODULE Spec2Model ----
(***************************************************************************)
(* Verification model of the NOMAD workflow recreator:                     *)
(*   - the formula parser (parse_formula_carefully, _parse_formula_elements) *)
(*   - the paginated extractor (NomadClient of nomad_server_improved.py and *)
(*     of nomad_server.py)                                                  *)
(*   - WorkflowOrchestrator.reconstruct_dataset_workflow with the graph     *)
(*     store it writes to                                                   *)
(*   - the classifier and the inference engine of the orchestrator as       *)
(*     functions of an entry list                                           *)
(*   - the normalisation loop as a function of the raw records             *)
(*   - the cluster-size scripts and the memgraph_clear_dataset tool         *)
(*   - the analysis tools memgraph_analyze_periodic_trends and              *)
(*     memgraph_analyze_cluster_patterns.                                   *)
(* Seven specifications share the variables: SpecParse, SpecExtract, Spec, *)
(* SpecInfer, SpecNormalize, SpecCluster, SpecTools.                        *)
(***************************************************************************)
EXTENDS Integers, Sequences, FiniteSets, TLC

VARIABLES
    \* ---- formula parser ----
    formula,        \* the input string, a sequence of one-character strings
    parsed,         \* result of parse_formula_carefully
    parsedElems,    \* result of ClusterSizeAnalyzer._parse_formula_elements
    fpc,            \* "input" before the call, "parsed" after it
    \* ---- classifier and inference engine called on a given entry list ----
    ientries,       \* the list of WorkflowEntry values passed in
    isorted,        \* result of _sort_entries_by_execution_order
    iedges,         \* result of _infer_workflow_relationships
    ipc,            \* "input" before the calls, "done" after them
    \* ---- cluster-size scripts and the administrative clear tool ----
    graph_entries,  \* the Entry nodes as the scripts' formula query returns them
    cscript,        \* the script that runs or ran last
    cpc,            \* "idle", "writing", "done", "raised"
    cwrites,        \* the CREATE queries the running script derived from the rows
    cidx,           \* loop index over cwrites
    series_created, \* relationships_created of the running script
    cruns,          \* script runs started so far
    lastDelete,     \* what the latest clear or clean-up was given and removed
    \* ---- the normalisation loop called on a given list of raw records ----
    nraw,           \* entries = dataset_data["data"]
    nentries,       \* workflow_entries after the loop
    nedges,         \* _infer_workflow_relationships(workflow_entries)
    npc,            \* "input" before the loop, "done" after the inference
    \* ---- analysis tools of the graph server ----
    toolEdges,      \* the edges the tools MERGEd, as a set of records
    lastTool,       \* name, arguments and writes of the latest tool call
    toolCalls,      \* tool calls so far
    \* ---- remote data service ----
    svcTotal,       \* number of records the service holds for the identifier
    svcMode,        \* "honest", or "looping": always a full page and a cursor
    requests,       \* page requests received during the current client call
    delivered,      \* concatenation of the pages answered during the call
    sentAtCount,    \* len(all_entries) when the latest page request was sent
    failedAt,       \* index of the page request that failed (0: none)
    failures,       \* failures injected so far (requests and store writes)
    \* ---- NomadClient call in progress ----
    method,         \* which client method is running
    max_entries,    \* 0 models None
    page_size,      \* page size of the request (0: no pagination key sent)
    epc,            \* "idle", "info", "loop", "returned", "raised"
    all_entries,    \* accumulated raw records (handles into the service data)
    page_after_value, \* continuation cursor, 0 models None
    page,           \* page number of nomad_server.py
    total_entries,
    pages_fetched,
    eresult,        \* the returned dict
    \* ---- reconstruct_dataset_workflow ----
    dataset_identifier,
    identifier_type,
    rpc,            \* position in the run
    runNo,          \* which run of the reconstruction this is
    total_estimated,
    raw_entries,    \* entries = dataset_data["data"]
    workflow_entries,
    relationships,
    idx,            \* loop index of the write loops
    summary,
    \* ---- graph store ----
    datasetNodes,   \* dataset_id -> entry_count of the Dataset node
    entryNodes,     \* entry_id -> number of Entry nodes with that id
    containsEdges,  \* number of CONTAINS edges
    relEdges,       \* <<from, to, type>> -> number of such edges
    \* ---- what the run did (for the claims) ----
    nodeTried,      \* Entry node writes attempted in this run
    edgeTried,      \* edge writes attempted in this run
    edgeOk,         \* edge writes that succeeded in this run
    failedNode,     \* index of the Entry node write that failed (0: none)
    failedEdge,     \* index of the latest edge write that failed (0: none)
    prevDone,       \* the previous run returned its summary
    prevEntries,    \* workflow_entries of the previous run
    prevEntryNodes, \* Entry nodes in the store after the previous run
    prevDatasetNodes

parseVars == <<formula, parsed, parsedElems, fpc>>
inferVars == <<ientries, isorted, iedges, ipc>>
clusterVars == <<graph_entries, cscript, cpc, cwrites, cidx, series_created, cruns,
                 lastDelete>>
\* What neither the extractor nor the reconstruction touches
normVars == <<nraw, nentries, nedges, npc>>
toolVars == <<toolEdges, lastTool, toolCalls>>
sideVars == <<parseVars, inferVars, clusterVars, normVars, toolVars>>
svcVars == <<svcTotal, svcMode, requests, delivered, sentAtCount, failedAt, failures>>
extVars == <<method, max_entries, page_size, epc, all_entries, page_after_value,
             page, total_entries, pages_fetched, eresult>>

cfgVars == <<dataset_identifier, identifier_type>>
runVars == <<rpc, runNo, total_estimated, raw_entries, workflow_entries, relationships,
             idx, summary>>
storeVars == <<datasetNodes, entryNodes, containsEdges, relEdges>>
obsVars == <<nodeTried, edgeTried, edgeOk, failedNode, failedEdge, prevDone,
             prevEntries, prevEntryNodes, prevDatasetNodes>>

\* What the client and the service never touch
notExtVars == <<sideVars, cfgVars, runVars, storeVars, obsVars>>

vars == <<sideVars, svcVars, extVars, cfgVars, runVars, storeVars, obsVars>>

(***************************************************************************)
(* Small helpers                                                          *)
(***************************************************************************)
Min(a, b) == IF a <= b THEN a ELSE b

RECURSIVE SumOver(_, _)
\* Sum of f[x] over the finite set S
SumOver(S, f) ==
    IF S = {} THEN 0
    ELSE LET x == CHOOSE y \in S : TRUE IN f[x] + SumOver(S \ {x}, f)

\* The empty Python dict
EmptyMap == [x \in {} |-> 0]

(***************************************************************************)
(* Formula parser                                                         *)
(***************************************************************************)
\* Longest formula string explored
MaxFormulaLen == 4

\* Character classes of the regular expressions [A-Z], [a-z], \d, over the
\* characters the model writes formulas with.  NL is the newline, which
\* Python's "$" tolerates at the very end of the string.
Upper == {"A", "C", "F", "R"}
Lower == {"g", "e", "h"}
Digit == {"0", "1", "2"}
NL == "\n"
\* The characters of the strings handed to the parsers
Chars == {"A", "C", "g", "0", "2", NL}

Strings == UNION {[1..n -> Chars] : n \in 0..MaxFormulaLen}

DigitVal(c) == IF c = "2" THEN 2 ELSE IF c = "1" THEN 1 ELSE 0

RECURSIVE IntOf(_)
\* Python int(count_str) of a non-empty digit string
IntOf(ds) ==
    IF Len(ds) = 0 THEN 0
    ELSE IntOf(SubSeq(ds, 1, Len(ds) - 1)) * 10 + DigitVal(ds[Len(ds)])

\* End (exclusive) of the match of [A-Z][a-z]? starting at position i, or 0
SymbolEnd(s, i) ==
    IF i > Len(s) \/ s[i] \notin Upper THEN 0
    ELSE IF i + 1 <= Len(s) /\ s[i + 1] \in Lower THEN i + 2
    ELSE i + 1

RECURSIVE DigitsEnd(_, _)
\* End (exclusive) of the greedy run of \d starting at position i
DigitsEnd(s, i) ==
    IF i <= Len(s) /\ s[i] \in Digit THEN DigitsEnd(s, i + 1) ELSE i

\* Python's "$": the end of the string, or just before a final newline
AtDollar(s, i) ==
    \/ i = Len(s) + 1
    \/ i = Len(s) /\ s[i] = NL

\* Faulty variant of Accumulate: elements[element] = count, a plain assignment
AccumulateOverwrite(elements, element, count) ==
    [x \in DOMAIN elements \cup {element} |->
        IF x = element THEN count ELSE elements[x]]

\* if element in elements: elements[element] += count else: elements[element] = count
Accumulate(elements, element, count) ==
    [x \in DOMAIN elements \cup {element} |->
        IF x = element
        THEN (IF element \in DOMAIN elements THEN elements[element] + count ELSE count)
        ELSE elements[x]]

RECURSIVE FindAllAccumulate(_, _, _)
\* re.findall(r'([A-Z][a-z]?)(\d*)', formula) and the loop over its matches:
\* scan from position i, skipping characters where the pattern does not match
FindAllAccumulate(s, i, elements) ==
    IF i > Len(s) THEN elements
    ELSE LET se == SymbolEnd(s, i) IN
         IF se = 0 THEN FindAllAccumulate(s, i + 1, elements)
         ELSE LET de == DigitsEnd(s, se)
                  element == SubSeq(s, i, se - 1)
                  count_str == SubSeq(s, se, de - 1)
                  count == IF Len(count_str) > 0 THEN IntOf(count_str) ELSE 1
              IN FindAllAccumulate(s, de, Accumulate(elements, element, count))

\* ClusterSizeAnalyzer._parse_formula_elements (cluster_size_relationships.py)
_parse_formula_elements(s) == FindAllAccumulate(s, 1, EmptyMap)

\* enhance_cluster_relationships.py and, identically, find_cluster_variations.py
parse_formula_carefully(s) ==
    LET se == SymbolEnd(s, 1)
        de == IF se = 0 THEN 0 ELSE DigitsEnd(s, se)
    IN  IF se # 0 /\ de > se /\ AtDollar(s, de)
        THEN \* simple_match: ^([A-Z][a-z]?)(\d+)$
             (SubSeq(s, 1, se - 1) :> IntOf(SubSeq(s, se, de - 1)))
        ELSE IF se # 0 /\ AtDollar(s, se)
        THEN \* single_match: ^([A-Z][a-z]?)$
             (SubSeq(s, 1, se - 1) :> 1)
        ELSE FindAllAccumulate(s, 1, EmptyMap)

ParseIdle ==
    /\ formula = <<>>
    /\ parsed = EmptyMap
    /\ parsedElems = EmptyMap
    /\ fpc = "idle"

(***************************************************************************)
(* Remote data service (external collaborator)                             *)
(***************************************************************************)
\* Largest number of records the service holds
MaxTotal == 5
\* page_size of the client methods (100 in the source), scaled down
PageSize == 2
\* Page size the service applies when a request names none
SvcDefaultPageSize == 2
\* Largest max_entries a direct client call is given
MaxCap == 3
\* "if page > 1000: break" of nomad_server.py, scaled down
PageCeiling == 3
\* The model stops following a call after this many page requests
MaxRequests == 6
\* At most this many requests and writes fail in one behaviour
MaxFailures == 2

\* The handles from..to as a sequence (empty when from > to)
Range(from, to) == [i \in 1..(IF to >= from THEN to - from + 1 ELSE 0) |-> from + i - 1]

\* The service's answer to a page request that skips `offset` records and asks
\* for `ps` records (0: the service's default).  "looping" is a misbehaving
\* service: always a full page and always the same non-empty cursor.
SvcPage(offset, ps) ==
    LET n == IF ps = 0 THEN SvcDefaultPageSize ELSE ps IN
    IF svcMode = "looping"
    THEN [data |-> Range(1, n), next |-> 1, total |-> svcTotal]
    ELSE [data |-> Range(offset + 1, Min(offset + n, svcTotal)),
          next |-> IF offset + n < svcTotal THEN offset + n ELSE 0,
          total |-> svcTotal]

(***************************************************************************)
(* NomadClient: nomad_server_improved.py ("upload", "dataset", "search")   *)
(* and nomad_server.py ("legacy_dataset", "legacy_upload")                 *)
(***************************************************************************)
ImprovedPaging == {"upload", "dataset"}
LegacyPaging == {"legacy_dataset", "legacy_upload"}
PagingMethods == ImprovedPaging \cup LegacyPaging

\* if max_entries: all_entries = all_entries[:max_entries]
Trim(entries, maxE) ==
    IF maxE # 0 THEN SubSeq(entries, 1, Min(maxE, Len(entries))) ELSE entries

\* Faulty variant of StopAfterPage: the cap is not looked at
StopAfterPageNoCap(page_entries, entries, ps, maxE) == Len(page_entries) < ps

\* if len(page_entries) < page_size or (max_entries and len(all_entries) >= max_entries)
StopAfterPage(page_entries, entries, ps, maxE) ==
    \/ Len(page_entries) < ps
    \/ (maxE # 0 /\ Len(entries) >= maxE)

\* Faulty variant of PartialOnError: a failed page discards what was accumulated
PartialOnErrorDrop(entries) == <<>>

\* except Exception: print(...); break  -- the accumulated entries are kept
PartialOnError(entries) == entries

\* The dict a paging method returns
PagingResult(entries, total, pages) ==
    [data |-> Trim(entries, max_entries), total |-> total, pages_fetched |-> pages]

\* State of the client before any call
ExtractIdle ==
    /\ method = "none"
    /\ max_entries = 0
    /\ page_size = 0
    /\ epc = "idle"
    /\ all_entries = <<>>
    /\ page_after_value = 0
    /\ page = 0
    /\ total_entries = 0
    /\ pages_fetched = 0
    /\ eresult = [data |-> <<>>, total |-> 0, pages_fetched |-> 0]
    /\ requests = 0
    /\ delivered = <<>>
    /\ sentAtCount = 0
    /\ failedAt = 0

\* Entry of a client method: the local variables before the first request
ExtCall(m, maxE, ps) ==
    /\ method' = m
    /\ max_entries' = maxE
    /\ page_size' = ps
    /\ epc' = IF m = "legacy_upload" THEN "info" ELSE "loop"
    /\ all_entries' = <<>>
    /\ page_after_value' = 0
    /\ page' = 0
    /\ total_entries' = 0
    /\ pages_fetched' = 0
    /\ eresult' = [data |-> <<>>, total |-> 0, pages_fetched |-> 0]
    /\ requests' = 0
    /\ delivered' = <<>>
    /\ sentAtCount' = 0
    /\ failedAt' = 0

\* One iteration of the while loop of get_upload_entries / get_dataset_entries
\* (nomad_server_improved.py): the request, and what follows its answer
ImprovedFetchPage ==
    /\ UNCHANGED notExtVars
    /\ epc = "loop"
    /\ method \in ImprovedPaging
    /\ requests < MaxRequests
    /\ requests' = requests + 1
    /\ sentAtCount' = Len(all_entries)
    /\ UNCHANGED <<method, max_entries, page_size, page, svcTotal, svcMode>>
    /\ \/ \* the request fails: except ... break, then trim and return
          /\ failures < MaxFailures
          /\ failures' = failures + 1
          /\ failedAt' = requests + 1
          /\ epc' = "returned"
          /\ eresult' = PagingResult(PartialOnError(all_entries), total_entries,
                                     pages_fetched)
          /\ UNCHANGED <<all_entries, page_after_value, total_entries,
                         pages_fetched, delivered>>
       \/ \* the request is answered
          LET result == SvcPage(page_after_value, page_size)
              page_entries == result.data
              entries == all_entries \o page_entries
              total == IF total_entries = 0 THEN result.total ELSE total_entries
              stop == \/ StopAfterPage(page_entries, entries, page_size, max_entries)
                      \/ result.next = 0
          IN  /\ all_entries' = entries
              /\ delivered' = delivered \o page_entries
              /\ pages_fetched' = pages_fetched + 1
              /\ total_entries' = total
              /\ page_after_value' =
                    IF StopAfterPage(page_entries, entries, page_size, max_entries)
                    THEN page_after_value ELSE result.next
              /\ epc' = IF stop THEN "returned" ELSE "loop"
              /\ eresult' = IF stop
                            THEN PagingResult(entries, total, pages_fetched + 1)
                            ELSE eresult
              /\ UNCHANGED <<failedAt, failures>>

\* get_dataset_entries(upload_id=...) of nomad_server.py: GET uploads/{id} first
LegacyUploadInfo ==
    /\ UNCHANGED notExtVars
    /\ epc = "info"
    /\ method = "legacy_upload"
    /\ UNCHANGED <<method, max_entries, page_size, page, svcTotal, svcMode,
                   all_entries, page_after_value, pages_fetched, requests,
                   delivered, sentAtCount, failedAt>>
    /\ \/ \* except: return {"data": [], "pagination": {"total": 0, "pages_fetched": 0}}
          /\ failures < MaxFailures
          /\ failures' = failures + 1
          /\ epc' = "returned"
          /\ eresult' = [data |-> <<>>, total |-> 0, pages_fetched |-> 0]
          /\ UNCHANGED total_entries
       \/ \* total_entries = upload_data.get("entries", 0)
          /\ total_entries' = svcTotal
          /\ epc' = "loop"
          /\ UNCHANGED <<eresult, failures>>

\* One iteration of either while loop of get_dataset_entries (nomad_server.py)
LegacyFetchPage ==
    /\ UNCHANGED notExtVars
    /\ epc = "loop"
    /\ method \in LegacyPaging
    /\ requests < MaxRequests
    /\ requests' = requests + 1
    /\ sentAtCount' = Len(all_entries)
    /\ UNCHANGED <<method, max_entries, page_size, page_after_value, pages_fetched,
                   svcTotal, svcMode>>
    /\ \/ \* the request fails: except ... break
          /\ failures < MaxFailures
          /\ failures' = failures + 1
          /\ failedAt' = requests + 1
          /\ epc' = "returned"
          /\ eresult' = PagingResult(PartialOnError(all_entries), total_entries,
                                     page + 1)
          /\ UNCHANGED <<all_entries, page, total_entries, delivered>>
       \/ \* the request is answered
          LET result == SvcPage(page * page_size, page_size)
              page_entries == result.data
              entries == all_entries \o page_entries
              total == IF method = "legacy_dataset" /\ page = 0
                       THEN result.total ELSE total_entries
              stop1 == StopAfterPage(page_entries, entries, page_size, max_entries)
              newpage == IF stop1 THEN page ELSE page + 1
              stop == stop1 \/ newpage > PageCeiling
          IN  /\ all_entries' = entries
              /\ delivered' = delivered \o page_entries
              /\ total_entries' = total
              /\ page' = newpage
              /\ epc' = IF stop THEN "returned" ELSE "loop"
              /\ eresult' = IF stop
                            THEN PagingResult(entries, total, newpage + 1)
                            ELSE eresult
              /\ UNCHANGED <<failedAt, failures>>

\* search_entries (nomad_server_improved.py): one request, raise_for_status()
SearchEntries ==
    /\ UNCHANGED notExtVars
    /\ epc = "loop"
    /\ method = "search"
    /\ requests' = requests + 1
    /\ sentAtCount' = Len(all_entries)
    /\ UNCHANGED <<method, max_entries, page_size, all_entries, page_after_value,
                   page, total_entries, pages_fetched, svcTotal, svcMode>>
    /\ \/ \* the request fails: the exception leaves search_entries
          /\ failures < MaxFailures
          /\ failures' = failures + 1
          /\ failedAt' = requests + 1
          /\ epc' = "raised"
          /\ UNCHANGED <<eresult, delivered>>
       \/ \* return response.json(): no "pages_fetched" key; the caller reads
          \* pagination_info.get('pages_fetched', 1)
          LET result == SvcPage(0, page_size)
          IN  /\ epc' = "returned"
              /\ delivered' = delivered \o result.data
              /\ eresult' = [data |-> result.data, total |-> result.total,
                             pages_fetched |-> 1]
              /\ UNCHANGED <<failedAt, failures>>

(***************************************************************************)
(* Raw records of the service and their normalisation                      *)
(* (WorkflowOrchestrator.reconstruct_dataset_workflow, step 3)             *)
(***************************************************************************)
\* Substring tests of the source, tabulated over the file names the model
\* uses: "aims.out" in mainfile; ".inp" in mainfile or ".in" in mainfile;
\* "control" in mainfile.lower()
HasAimsOut(name) == name \in {"aims.out"}
HasInExt(name) == name \in {"geometry.in", "control.in"}
HasControl(name) == name \in {"control.in", "CONTROL"}

\* Extension classes of _analyze_file_structure, over the same file names
IsInputPath(name) == name \in {"geometry.in", "control.in"}
IsOutputPath(name) == name \in {"aims.out", "run.log"}
IsScriptPath(name) == name \in {"run.sh"}

\* The record behind handle h: entry_id (0: the key is missing), upload_id,
\* results.material.chemical_formula_reduced, mainfile, files
RawRecord(h) ==
    CASE h = 1 -> [entry_id |-> 1, upload_id |-> "u1", formula |-> "W2",
                   mainfile |-> "aims.out", files |-> <<"geometry.in", "aims.out">>]
      [] h = 2 -> [entry_id |-> 2, upload_id |-> "u1", formula |-> "W2",
                   mainfile |-> "aims.out", files |-> <<>>]
      [] h = 3 -> [entry_id |-> 3, upload_id |-> "u2", formula |-> "W2",
                   mainfile |-> "geometry.in", files |-> <<"run.sh">>]
      [] h = 4 -> [entry_id |-> 0, upload_id |-> "u2", formula |-> "",
                   mainfile |-> "", files |-> <<>>]
      [] OTHER -> [entry_id |-> h, upload_id |-> "u2", formula |-> "Na3",
                   mainfile |-> "CONTROL", files |-> <<"run.log">>]

\* _analyze_file_structure: the first matching extension class takes the path
_analyze_file_structure(files) ==
    [total_files |-> Len(files),
     input_files |-> SelectSeq(files, IsInputPath),
     output_files |-> SelectSeq(files, LAMBDA f : ~IsInputPath(f) /\ IsOutputPath(f)),
     script_files |-> SelectSeq(files, LAMBDA f : ~IsInputPath(f) /\ ~IsOutputPath(f)
                                                  /\ IsScriptPath(f))]

\* entry_type from mainfile (lines 140-148)
EntryTypeOf(mainfile) ==
    IF mainfile = "" THEN "calculation"
    ELSE IF HasAimsOut(mainfile) THEN "fhi-aims_calculation"
    ELSE IF HasInExt(mainfile) THEN "input_file"
    ELSE IF HasControl(mainfile) THEN "control_file"
    ELSE "calculation"

\* The WorkflowEntry built from one raw record (entry_name and
\* workflow_metadata are carried to no decision and are left out)
ToWorkflowEntry(rec) ==
    [entry_id |-> rec.entry_id,
     entry_type |-> EntryTypeOf(rec.mainfile),
     formula |-> rec.formula,
     upload_name |-> rec.upload_id,
     file_structure |-> _analyze_file_structure(rec.files)]

\* One iteration of the loop over the raw entries (lines 90-163): a record
\* without entry_id is skipped, any other is appended
NormalizeRecord(rec) ==
    IF rec.entry_id = 0 THEN <<>> ELSE <<ToWorkflowEntry(rec)>>

RECURSIVE NormalizeFrom(_, _)
\* The loop over the raw entries
NormalizeFrom(handles, i) ==
    IF i > Len(handles) THEN <<>>
    ELSE NormalizeRecord(RawRecord(handles[i])) \o NormalizeFrom(handles, i + 1)

Normalize(handles) == NormalizeFrom(handles, 1)

(***************************************************************************)
(* Execution-order classifier and relationship inference                   *)
(***************************************************************************)
\* The stage keywords found in entry_type.lower(), tabulated over the
\* entry types the model uses
KeywordsIn(entry_type) ==
    CASE entry_type = "geometry_optimization" -> {"geometry", "optimization"}
      [] entry_type = "optimization" -> {"optimization"}
      [] entry_type = "scf" -> {"scf"}
      [] entry_type = "dos" -> {"dos"}
      [] entry_type = "band_structure" -> {"band"}
      [] entry_type = "analysis" -> {"analysis"}
      [] OTHER -> {}

\* dict.get(key) on a file_structure: None (falsy) when the key is absent
FsFlag(fs, key) == IF key \in DOMAIN fs THEN fs[key] ELSE FALSE

\* execution_priority (lines 376-399)
execution_priority(entry) ==
    LET kw == KeywordsIn(entry.entry_type)
        base == IF "geometry" \in kw \/ "optimization" \in kw THEN 10
                ELSE IF "scf" \in kw \/ "dft" \in kw THEN 20
                ELSE IF "dos" \in kw \/ "band" \in kw THEN 30
                ELSE IF "analysis" \in kw \/ "post" \in kw THEN 40
                ELSE 100
        fs == entry.file_structure
    IN  IF FsFlag(fs, "has_input_files") /\ ~FsFlag(fs, "has_output_files")
        THEN base - 5
        ELSE IF FsFlag(fs, "has_output_files") /\ ~FsFlag(fs, "has_input_files")
        THEN base + 5
        ELSE base

RECURSIVE InsertByPriority(_, _)
\* Insert e after every element whose priority is not larger (stable)
InsertByPriority(sorted, e) ==
    IF sorted = <<>> THEN <<e>>
    ELSE IF execution_priority(Head(sorted)) <= execution_priority(e)
         THEN <<Head(sorted)>> \o InsertByPriority(Tail(sorted), e)
         ELSE <<e>> \o sorted

RECURSIVE SortFrom(_, _, _)
SortFrom(entries, i, acc) ==
    IF i > Len(entries) THEN acc
    ELSE SortFrom(entries, i + 1, InsertByPriority(acc, entries[i]))

\* _sort_entries_by_execution_order: sorted(entries, key=execution_priority)
_sort_entries_by_execution_order(entries) == SortFrom(entries, 1, <<>>)

\* Faulty variant of _determine_relationship_type: the test for identical
\* entry types is missing
_determine_relationship_type_no_similar(from_entry, to_entry) ==
    LET fk == KeywordsIn(from_entry.entry_type)
        tk == KeywordsIn(to_entry.entry_type)
    IN  IF "geometry" \in fk /\ "scf" \in tk THEN "PROVIDES_STRUCTURE"
        ELSE IF "scf" \in fk /\ ("dos" \in tk \/ "band" \in tk)
        THEN "PROVIDES_ELECTRONIC_STRUCTURE"
        ELSE IF FsFlag(from_entry.file_structure, "has_output_files")
                /\ FsFlag(to_entry.file_structure, "has_input_files")
        THEN "PROVIDES_INPUT_DATA"
        ELSE "WORKFLOW_STEP"

\* _determine_relationship_type
_determine_relationship_type(from_entry, to_entry) ==
    LET fk == KeywordsIn(from_entry.entry_type)
        tk == KeywordsIn(to_entry.entry_type)
    IN  IF "geometry" \in fk /\ "scf" \in tk THEN "PROVIDES_STRUCTURE"
        ELSE IF "scf" \in fk /\ ("dos" \in tk \/ "band" \in tk)
        THEN "PROVIDES_ELECTRONIC_STRUCTURE"
        ELSE IF from_entry.entry_type = to_entry.entry_type THEN "SIMILAR_CALCULATION"
        ELSE IF FsFlag(from_entry.file_structure, "has_output_files")
                /\ FsFlag(to_entry.file_structure, "has_input_files")
        THEN "PROVIDES_INPUT_DATA"
        ELSE "WORKFLOW_STEP"

\* compatible_sequences of _are_compatible_entry_types
compatible_sequences ==
    {{"geometry_optimization", "single_point", "dos"},
     {"structure", "scf", "band_structure"},
     {"optimization", "frequency", "thermodynamics"}}

_are_compatible_entry_types(type1, type2) ==
    \E sequence \in compatible_sequences : type1 \in sequence /\ type2 \in sequence

\* _calculate_relationship_confidence, in tenths
_calculate_relationship_confidence(from_entry, to_entry) ==
    LET c1 == 5 + (IF from_entry.formula = to_entry.formula /\ from_entry.formula # ""
                   THEN 3 ELSE 0)
        c2 == c1 + (IF FsFlag(from_entry.file_structure, "has_output_files")
                       /\ FsFlag(to_entry.file_structure, "has_input_files")
                    THEN 2 ELSE 0)
        c3 == c2 + (IF _are_compatible_entry_types(from_entry.entry_type, to_entry.entry_type)
                    THEN 2 ELSE 0)
    IN  Min(c3, 10)

RECURSIVE DistinctInOrder(_, _)
\* The distinct non-empty values of a sequence, in order of first
\* appearance (the key order of a Python dict filled in a loop)
DistinctInOrder(seq, seen) ==
    IF seq = <<>> THEN <<>>
    ELSE IF Head(seq) \in seen \/ Head(seq) = ""
         THEN DistinctInOrder(Tail(seq), seen)
         ELSE <<Head(seq)>> \o DistinctInOrder(Tail(seq), seen \cup {Head(seq)})

UploadGroup(entries, upload_name) ==
    SelectSeq(entries, LAMBDA e : e.upload_name = upload_name)

\* The sequential edges of one upload group (lines 326-359)
SequentialEdges(upload_name, group_entries) ==
    IF Len(group_entries) <= 1 THEN <<>>
    ELSE LET sorted_entries == _sort_entries_by_execution_order(group_entries) IN
         [i \in 1..(Len(sorted_entries) - 1) |->
            [from_entry_id |-> sorted_entries[i].entry_id,
             to_entry_id |-> sorted_entries[i + 1].entry_id,
             relationship_type |->
                _determine_relationship_type(sorted_entries[i], sorted_entries[i + 1]),
             properties |->
                [upload_cluster |-> upload_name,
                 confidence |->
                    _calculate_relationship_confidence(sorted_entries[i], sorted_entries[i + 1])]]]

RECURSIVE ConcatAll(_)
ConcatAll(seqs) == IF seqs = <<>> THEN <<>> ELSE Head(seqs) \o ConcatAll(Tail(seqs))

\* Faulty variant of Representative: the last entry of the upload is linked
RepresentativeLast(upload_entries) == upload_entries[Len(upload_entries)]

\* "Link representative entries from each upload": upload1_entries[0]
Representative(upload_entries) == upload_entries[1]

\* _find_cross_upload_relationships
_find_cross_upload_relationships(entries) ==
    LET usable == SelectSeq(entries, LAMBDA e : e.formula # "" /\ e.upload_name # "")
        formulas == DistinctInOrder([k \in 1..Len(usable) |-> usable[k].formula], {})
        ForFormula(f) ==
            LET same == SelectSeq(usable, LAMBDA e : e.formula = f)
                uploads == DistinctInOrder([k \in 1..Len(same) |-> same[k].upload_name], {})
                Rep(u) == Representative(SelectSeq(same, LAMBDA e : e.upload_name = u))
                PairsFrom(i) ==
                    [d \in 1..(Len(uploads) - i) |->
                        [from_entry_id |-> Rep(uploads[i]).entry_id,
                         to_entry_id |-> Rep(uploads[i + d]).entry_id,
                         relationship_type |-> "SAME_MATERIAL",
                         properties |-> [formula |-> f, confidence |-> 8]]]
            IN ConcatAll([i \in 1..Len(uploads) |-> PairsFrom(i)])
    IN ConcatAll([k \in 1..Len(formulas) |-> ForFormula(formulas[k])])

\* _infer_workflow_relationships
_infer_workflow_relationships(entries) ==
    LET names == DistinctInOrder([k \in 1..Len(entries) |-> entries[k].upload_name], {})
    IN  ConcatAll([k \in 1..Len(names) |->
                     SequentialEdges(names[k], UploadGroup(entries, names[k]))])
        \o _find_cross_upload_relationships(entries)

(***************************************************************************)
(* The classifier and the inference engine as functions of an entry list   *)
(***************************************************************************)
\* Longest entry list handed to the two functions
MaxEntries == 3

\* The file_structure _analyze_file_structure builds for an entry without
\* files, and the same dict with the two keys execution_priority,
\* _determine_relationship_type and _calculate_relationship_confidence read
NoFiles == _analyze_file_structure(<<>>)

WithFlags(has_input, has_output) ==
    [total_files |-> 0, input_files |-> <<>>, output_files |-> <<>>,
     script_files |-> <<>>,
     has_input_files |-> has_input, has_output_files |-> has_output]

FileSummaries ==
    {NoFiles, WithFlags(TRUE, FALSE), WithFlags(FALSE, TRUE), WithFlags(TRUE, TRUE)}

\* Entry types of the groups: four stage tags and the default type
StageTypes == {"optimization", "scf", "dos", "analysis", "calculation"}

\* One upload group in any order, with any stage tags and file summaries
GroupOf(choice) ==
    [i \in 1..Len(choice) |->
        [entry_id |-> i, entry_type |-> choice[i][1], formula |-> "W2",
         upload_name |-> "u1", file_structure |-> choice[i][2]]]

ClassifierInputs ==
    {GroupOf(choice) :
        choice \in UNION {[1..n -> StageTypes \X FileSummaries] : n \in 0..MaxEntries}}

\* A normalised record set: entries of the default type without files, in
\* any upload, with any formula; a record may repeat the entry_id of the
\* first one, since the normaliser compares no ids
Uploads == {"u1", "u2", "u3"}
Formulas == {"W2", "Na3", ""}

RecordSetOf(choice) ==
    [i \in 1..Len(choice) |->
        [entry_id |-> IF choice[i][1] THEN 1 ELSE i, entry_type |-> "calculation",
         formula |-> choice[i][2], upload_name |-> choice[i][3],
         file_structure |-> NoFiles]]

RecordSets ==
    {RecordSetOf(choice) :
        choice \in UNION {[1..n -> BOOLEAN \X Formulas \X Uploads] : n \in 0..MaxEntries}}

InferIdle ==
    /\ ientries = <<>>
    /\ isorted = <<>>
    /\ iedges = <<>>
    /\ ipc = "idle"

(***************************************************************************)
(* The normalisation loop as a function of the raw records                 *)
(***************************************************************************)
\* Longest list of raw records handed to the loop
MaxRaw == 2

\* Raw records as the service may return them: the entry_id may be missing
\* (0) and a record may come more than once
RawRecords ==
    [entry_id : {0, 1, 2}, upload_id : {"u1"}, formula : {"W2", ""},
     mainfile : {"aims.out", "geometry.in"},
     files : {<<>>, <<"aims.out">>, <<"geometry.in">>}]

RawLists == UNION {[1..n -> RawRecords] : n \in 0..MaxRaw}

\* workflow_entries after the loop of lines 88-163
NormalizeRecords(records) ==
    ConcatAll([k \in 1..Len(records) |-> NormalizeRecord(records[k])])

NormIdle ==
    /\ nraw = <<>>
    /\ nentries = <<>>
    /\ nedges = <<>>
    /\ npc = "idle"

\* No tool of the graph server has been called
NoToolCall == [name |-> "none", arguments |-> <<>>, writes |-> <<>>]

ToolIdle ==
    /\ toolEdges = {}
    /\ lastTool = NoToolCall
    /\ toolCalls = 0

(***************************************************************************)
(* Graph store (Cypher semantics of the three write queries)               *)
(***************************************************************************)
\* Number of nodes with this entry_id
EntryNodesWith(id) == IF id \in DOMAIN entryNodes THEN entryNodes[id] ELSE 0

\* CREATE (e:Entry {entry_id: $entry_id, ...}): one more node, whatever exists
CreateEntryNode(nodes, id) ==
    [x \in DOMAIN nodes \cup {id} |->
        (IF x \in DOMAIN nodes THEN nodes[x] ELSE 0) + (IF x = id THEN 1 ELSE 0)]

\* MERGE (d:Dataset {dataset_id: $dataset_id}) SET d.entry_count = $entry_count
MergeDatasetNode(nodes, id, entry_count) ==
    [x \in DOMAIN nodes \cup {id} |-> IF x = id THEN entry_count ELSE nodes[x]]

\* MATCH (from:Entry ..) MATCH (to:Entry ..) CREATE (from)-[r:TYPE]->(to):
\* one edge for every pair of matching nodes
CreateRelationship(edges, rel) ==
    LET key == <<rel.from_entry_id, rel.to_entry_id, rel.relationship_type>>
        n == EntryNodesWith(rel.from_entry_id) * EntryNodesWith(rel.to_entry_id)
    IN  [x \in DOMAIN edges \cup {key} |->
            (IF x \in DOMAIN edges THEN edges[x] ELSE 0) + (IF x = key THEN n ELSE 0)]

(***************************************************************************)
(* Cluster-size scripts and the administrative clear tool                  *)
(* (cluster_size_relationships.py, find_cluster_variations.py,             *)
(* enhance_cluster_relationships.py, memgraph_server_enhanced.py)          *)
(***************************************************************************)
\* Largest number of Entry nodes in the store the scripts run against
MaxRows == 3
\* Number of script runs followed
MaxScriptRuns == 2

\* The formulas of the stored entries, as strings of the parser's alphabet,
\* and their rank under "ORDER BY e.formula" ("Ag2" < "C2" < "C20")
StoredFormulas == << <<"A", "g", "2">>, <<"C", "2">>, <<"C", "2", "0">> >>

FormulaRank(f) == CHOOSE k \in 1..Len(StoredFormulas) : StoredFormulas[k] = f

DatasetIds == {"ds1", "ds2"}

\* element_families, over the element symbols of the parser's alphabet
element_families(element) ==
    IF element = <<"A", "g">> THEN "transition_metals"
    ELSE IF element = <<"C">> THEN "p_block"
    ELSE "none"

RECURSIVE SortedSeq(_)
\* sorted(keys) of a set of integers
SortedSeq(S) ==
    IF S = {} THEN <<>>
    ELSE LET least == CHOOSE x \in S : \A y \in S : x <= y
         IN <<least>> \o SortedSeq(S \ {least})

RECURSIVE SetToSeq(_)
SetToSeq(S) ==
    IF S = {} THEN <<>>
    ELSE LET x == CHOOSE y \in S : TRUE IN <<x>> \o SetToSeq(S \ {x})

\* The values of a sequence in order of first appearance (dict key order)
FirstOccurrences(seq) ==
    LET keep == SortedSeq({k \in 1..Len(seq) : \A m \in 1..(k - 1) : seq[m] # seq[k]})
    IN [i \in 1..Len(keep) |-> seq[keep[i]]]

\* sum(parsed.values())
total_atoms(parsed_map) == SumOver(DOMAIN parsed_map, parsed_map)

\* max(parsed.items(), key=lambda x: x[1])[0]
primary_element(parsed_map) ==
    CHOOSE e \in DOMAIN parsed_map : \A x \in DOMAIN parsed_map : parsed_map[e] >= parsed_map[x]

\* A dict size -> [entry ids] filled in row order from the rows that belong
\* (member[k]: row k belongs, size_of[k]: its size)
SizeDict(rows, member, size_of) ==
    [size \in {size_of[k] : k \in {m \in 1..Len(rows) : member[m]}} |->
        LET sel == SortedSeq({k \in 1..Len(rows) : member[k] /\ size_of[k] = size})
        IN [j \in 1..Len(sel) |-> rows[sel[j]].entry_id]]

\* "for i in range(len(sizes) - 1)": one CREATE per pair of consecutive
\* sizes, between the first entry of each size (confidence in hundredths)
SeriesWrites(size_dict, series_type, confidence) ==
    LET sizes == SortedSeq(DOMAIN size_dict) IN
    [i \in 1..(Len(sizes) - 1) |->
        [from_entry_id |-> size_dict[sizes[i]][1],
         to_entry_id |-> size_dict[sizes[i + 1]][1],
         relationship_type |-> "CLUSTER_SIZE_SERIES",
         properties |-> [series_type |-> series_type, confidence |-> confidence,
                         smaller_size |-> sizes[i], larger_size |-> sizes[i + 1]]]]

\* The elements of all rows in the order a dict keyed by element is filled
\* (maps[k]: the parsed formula of row k)
ElementOrder(maps) ==
    FirstOccurrences(ConcatAll([k \in 1..Len(maps) |-> SetToSeq(DOMAIN maps[k])]))

\* The series of every element that has more than one size, in dict order
PerElementWrites(rows, maps, series_type, confidence) ==
    LET elements == ElementOrder(maps)
        DictOf(e) == SizeDict(rows, [k \in 1..Len(rows) |-> e \in DOMAIN maps[k]],
                              [k \in 1..Len(rows) |->
                                  IF e \in DOMAIN maps[k] THEN maps[k][e] ELSE 0])
    IN ConcatAll([k \in 1..Len(elements) |->
                    IF Cardinality(DOMAIN DictOf(elements[k])) > 1
                    THEN SeriesWrites(DictOf(elements[k]), series_type, confidence)
                    ELSE <<>>])

\* ClusterSizeAnalyzer.find_cluster_size_relationships, steps 2-4
find_cluster_size_relationships(rows) ==
    PerElementWrites(rows, [k \in 1..Len(rows) |->
                                _parse_formula_elements(rows[k].formula)],
                     "element", 85)

\* The rows whose formula parses to a non-empty map ("if parsed:")
ParsedRows(rows) ==
    SelectSeq(rows, LAMBDA r : parse_formula_carefully(r.formula) # EmptyMap)

\* size_groups / size_representatives: every parsed row by its total atoms
GlobalSizeDict(rows) ==
    LET usable == ParsedRows(rows) IN
    SizeDict(usable, [k \in 1..Len(usable) |-> TRUE],
             [k \in 1..Len(usable) |->
                 total_atoms(parse_formula_carefully(usable[k].formula))])

\* find_and_create_cluster_relationships: the per-element series, or, when no
\* element has more than one size, the series over the total atom counts
find_and_create_cluster_relationships(rows) ==
    LET elements_with_multiple_sizes ==
            PerElementWrites(rows, [k \in 1..Len(rows) |->
                                        parse_formula_carefully(rows[k].formula)],
                             "element", 85)
    IN  \* an element with more than one size always yields a write
        IF elements_with_multiple_sizes # <<>> THEN elements_with_multiple_sizes
        ELSE SeriesWrites(GlobalSizeDict(rows), "global_size", 85)

\* enhance_cluster_relationships, lines 104-155: the same-element series,
\* then the family series, then the global series
enhance_cluster_relationships(rows) ==
    LET usable == ParsedRows(rows)
        PrimaryOf(r) == primary_element(parse_formula_carefully(r.formula))
        TotalOf(r) == total_atoms(parse_formula_carefully(r.formula))
        FamilyOf(r) == element_families(PrimaryOf(r))
        elements == FirstOccurrences([k \in 1..Len(usable) |-> PrimaryOf(usable[k])])
        with_family == SelectSeq(usable, LAMBDA r : FamilyOf(r) # "none")
        families == FirstOccurrences([k \in 1..Len(with_family) |->
                                         FamilyOf(with_family[k])])
        totals == [k \in 1..Len(usable) |-> TotalOf(usable[k])]
        ElementDict(e) ==
            SizeDict(usable, [k \in 1..Len(usable) |-> PrimaryOf(usable[k]) = e], totals)
        FamilyDict(f) ==
            SizeDict(usable, [k \in 1..Len(usable) |-> FamilyOf(usable[k]) = f], totals)
        global == GlobalSizeDict(rows)
    IN  ConcatAll([k \in 1..Len(elements) |->
                     IF Cardinality(DOMAIN ElementDict(elements[k])) > 1
                     THEN SeriesWrites(ElementDict(elements[k]), "same_element", 95)
                     ELSE <<>>])
        \o ConcatAll([k \in 1..Len(families) |->
                        IF Cardinality(DOMAIN FamilyDict(families[k])) > 1
                        THEN SeriesWrites(FamilyDict(families[k]), "element_family", 85)
                        ELSE <<>>])
        \o (IF Cardinality(DOMAIN global) > 1
            THEN SeriesWrites(global, "global_size", 75) ELSE <<>>)

\* The store as the scripts' formula query returns it: Entry rows in formula
\* order, each in one dataset, ids by position
RowsOf(choice) ==
    [i \in 1..Len(choice) |->
        [entry_id |-> i, formula |-> choice[i][1], dataset_id |-> choice[i][2]]]

StoredRows ==
    {RowsOf(choice) :
        choice \in {c \in UNION {[1..n -> {StoredFormulas[k] : k \in 1..Len(StoredFormulas)}
                                            \X DatasetIds] : n \in 0..MaxRows} :
                       \A i \in 1..(Len(c) - 1) :
                           FormulaRank(c[i][1]) <= FormulaRank(c[i + 1][1])}}

NoDelete == [op |-> "none", confirm |-> FALSE, dataset_id |-> "", removed |-> 0,
             datasets_hit |-> {}]

ClusterIdle ==
    /\ graph_entries = <<>>
    /\ cscript = "none"
    /\ cpc = "idle"
    /\ cwrites = <<>>
    /\ cidx = 0
    /\ series_created = 0
    /\ cruns = 0
    /\ lastDelete = NoDelete

\* Dataset of the Entry node with this id ("" when there is none)
DatasetOf(id) ==
    IF \E k \in 1..Len(graph_entries) : graph_entries[k].entry_id = id
    THEN graph_entries[CHOOSE k \in 1..Len(graph_entries) :
                          graph_entries[k].entry_id = id].dataset_id
    ELSE ""

\* Number of stored edges among the given keys
EdgeCount(keys) == SumOver(keys, relEdges)

\* MATCH ()-[r:CLUSTER_SIZE_SERIES]->() DELETE r and what it removes
SeriesKeys == {key \in DOMAIN relEdges : key[3] = "CLUSTER_SIZE_SERIES"}

\* The writes a script derives from the rows of its formula query
ScriptWrites(script, rows) ==
    CASE script = "cluster_size" -> find_cluster_size_relationships(rows)
      [] script = "find_variations" -> find_and_create_cluster_relationships(rows)
      [] OTHER -> enhance_cluster_relationships(rows)

Scripts == {"cluster_size", "find_variations", "enhance"}

\* A script is started: connect, (enhance only) the clean-up query, the
\* formula query and the analysis; a failing query ends the script
StartScript ==
    /\ cpc \in {"idle", "done", "raised"}
    /\ cruns < MaxScriptRuns
    /\ cruns' = cruns + 1
    /\ series_created' = 0
    /\ \E script \in Scripts :
          /\ cscript' = script
          /\ \/ \* the clean-up or the formula query raises
                /\ failures < MaxFailures
                /\ failures' = failures + 1
                /\ cpc' = "raised"
                /\ cwrites' = <<>>
                /\ cidx' = 0
                /\ UNCHANGED <<relEdges, lastDelete>>
             \/ /\ cpc' = "writing"
                /\ cwrites' = ScriptWrites(script, graph_entries)
                /\ cidx' = 1
                /\ UNCHANGED failures
                /\ IF script = "enhance"
                   THEN /\ relEdges' = [key \in DOMAIN relEdges \ SeriesKeys |->
                                           relEdges[key]]
                        /\ lastDelete' =
                              [op |-> "cleanup", confirm |-> FALSE, dataset_id |-> "",
                               removed |-> EdgeCount(SeriesKeys),
                               datasets_hit |->
                                  UNION {{DatasetOf(key[1]), DatasetOf(key[2])} :
                                            key \in SeriesKeys}]
                   ELSE UNCHANGED <<relEdges, lastDelete>>
    /\ UNCHANGED <<parseVars, inferVars, normVars, toolVars, cfgVars, runVars, obsVars, extVars, svcTotal,
                   svcMode, requests, delivered, sentAtCount, failedAt, graph_entries,
                   datasetNodes, entryNodes, containsEdges>>

\* One iteration of a series loop: the CREATE query; a failure is printed
\* and the loop goes on
WriteSeriesEdge ==
    /\ cpc = "writing"
    /\ cidx <= Len(cwrites)
    /\ cidx' = cidx + 1
    /\ \/ /\ relEdges' = CreateRelationship(relEdges, cwrites[cidx])
          /\ series_created' = series_created + 1
          /\ UNCHANGED failures
       \/ /\ failures < MaxFailures
          /\ failures' = failures + 1
          /\ UNCHANGED <<relEdges, series_created>>
    /\ UNCHANGED <<parseVars, inferVars, normVars, toolVars, cfgVars, runVars, obsVars, extVars, svcTotal,
                   svcMode, requests, delivered, sentAtCount, failedAt, graph_entries,
                   datasetNodes, entryNodes, containsEdges, cscript, cpc, cwrites,
                   cruns, lastDelete>>

\* The loops are over: the total is printed and the edges are read back
FinishScript ==
    /\ cpc = "writing"
    /\ cidx > Len(cwrites)
    /\ cpc' = "done"
    /\ UNCHANGED <<parseVars, inferVars, normVars, toolVars, cfgVars, runVars, obsVars, extVars, svcVars,
                   storeVars, graph_entries, cscript, cwrites, cidx,
                   series_created, cruns, lastDelete>>

\* The rows and the ids that a clear of dataset_id removes
RowsCleared(dataset_id) ==
    IF dataset_id = "all" THEN graph_entries
    ELSE IF dataset_id \in DOMAIN datasetNodes
    THEN SelectSeq(graph_entries, LAMBDA r : r.dataset_id = dataset_id)
    ELSE <<>>

\* call_tool "memgraph_clear_dataset" (memgraph_server_enhanced.py)
ClearDataset ==
    /\ cpc \in {"idle", "done", "raised"}
    /\ \E dataset_id \in DatasetIds \cup {"all"}, confirm \in BOOLEAN :
          IF ~confirm
          THEN \* "Deletion cancelled - confirmation required"
               /\ lastDelete' = [op |-> "clear_dataset", confirm |-> FALSE,
                                  dataset_id |-> dataset_id, removed |-> 0,
                                  datasets_hit |-> {}]
               /\ UNCHANGED <<storeVars, graph_entries>>
          ELSE LET gone == RowsCleared(dataset_id)
                   ids == {gone[k].entry_id : k \in 1..Len(gone)}
                   dsets == IF dataset_id = "all" THEN DOMAIN datasetNodes
                            ELSE DOMAIN datasetNodes \cap {dataset_id}
                   detached == {key \in DOMAIN relEdges :
                                   dataset_id = "all" \/ key[1] \in ids \/ key[2] \in ids}
               IN  /\ graph_entries' = SelectSeq(graph_entries,
                                                  LAMBDA r : r.entry_id \notin ids)
                   /\ entryNodes' = [id \in DOMAIN entryNodes \ ids |-> entryNodes[id]]
                   /\ datasetNodes' = [d \in DOMAIN datasetNodes \ dsets |->
                                          datasetNodes[d]]
                   /\ containsEdges' = containsEdges - Len(gone)
                   /\ relEdges' = [key \in DOMAIN relEdges \ detached |-> relEdges[key]]
                   /\ lastDelete' =
                         [op |-> "clear_dataset", confirm |-> TRUE,
                          dataset_id |-> dataset_id,
                          removed |-> Len(gone) + Cardinality(dsets)
                                        + EdgeCount(detached),
                          datasets_hit |-> dsets \cup {gone[k].dataset_id :
                                                          k \in 1..Len(gone)}]
    /\ UNCHANGED <<parseVars, inferVars, normVars, toolVars, cfgVars, runVars, obsVars, extVars, svcVars,
                   cscript, cpc, cwrites, cidx, series_created, cruns>>

(***************************************************************************)
(* Analysis tools of the graph server (memgraph_server_enhanced.py):       *)
(* memgraph_analyze_periodic_trends, memgraph_analyze_cluster_patterns     *)
(***************************************************************************)
\* Number of tool calls followed
MaxToolCalls == 2

\* The formulas of the entries the tools are run against, in the order of
\* "ORDER BY e.formula": Ag2, C1, C2, C20, F2, Fe2, Rh2
ToolFormulas ==
    << <<"A", "g", "2">>, <<"C", "1">>, <<"C", "2">>, <<"C", "2", "0">>,
       <<"F", "2">>, <<"F", "e", "2">>, <<"R", "h", "2">> >>

ToolFormulaRank(f) == CHOOSE k \in 1..Len(ToolFormulas) : ToolFormulas[k] = f

\* The Entry rows of the store in formula order, ids by position
ToolRows ==
    {[i \in 1..Len(c) |-> [entry_id |-> i, formula |-> c[i], dataset_id |-> "ds1"]] :
        c \in {d \in UNION {[1..n -> {ToolFormulas[k] : k \in 1..Len(ToolFormulas)}] :
                               n \in 0..MaxRows} :
                  \A i \in 1..(Len(d) - 1) :
                      ToolFormulaRank(d[i]) <= ToolFormulaRank(d[i + 1])}}

\* periodic_groups (lines 433-441), in dict order
periodic_groups ==
    << [name |-> "alkali_metals",
        elements |-> << <<"L", "i">>, <<"N", "a">>, <<"K">>, <<"R", "b">>, <<"C", "s">> >>],
       [name |-> "alkaline_earth",
        elements |-> << <<"B", "e">>, <<"M", "g">>, <<"C", "a">>, <<"S", "r">>,
                        <<"B", "a">> >>],
       [name |-> "transition_metals",
        elements |-> << <<"S", "c">>, <<"T", "i">>, <<"V">>, <<"C", "r">>, <<"M", "n">>,
                        <<"F", "e">>, <<"C", "o">>, <<"N", "i">>, <<"C", "u">>,
                        <<"Z", "n">> >>],
       [name |-> "halogens",
        elements |-> << <<"F">>, <<"C", "l">>, <<"B", "r">>, <<"I">> >>],
       [name |-> "noble_gases",
        elements |-> << <<"H", "e">>, <<"N", "e">>, <<"A", "r">>, <<"K", "r">>,
                        <<"X", "e">>, <<"R", "n">> >>],
       [name |-> "pnictogens",
        elements |-> << <<"N">>, <<"P">>, <<"A", "s">>, <<"S", "b">>, <<"B", "i">> >>],
       [name |-> "chalcogens",
        elements |-> << <<"O">>, <<"S">>, <<"S", "e">>, <<"T", "e">>, <<"P", "o">> >>] >>

\* Cypher "e.formula CONTAINS elem": elem is a substring of the formula
Contains(s, elem) ==
    \E i \in 1..(Len(s) - Len(elem) + 1) : SubSeq(s, i, i + Len(elem) - 1) = elem

\* The rows the group query returns (lines 451-458)
GroupRows(rows, elements) ==
    SelectSeq(rows, LAMBDA r : \E k \in 1..Len(elements) : Contains(r.formula, elements[k]))

\* The MERGE queries of one group (lines 465-485): one for every two
\* consecutive rows of the group query (confidence in hundredths)
GroupWrites(group, entries) ==
    [i \in 1..(Len(entries) - 1) |->
        [from_entry_id |-> entries[i].entry_id,
         to_entry_id |-> entries[i + 1].entry_id,
         relationship_type |-> "PERIODIC_TREND",
         properties |-> [group |-> group.name, confidence |-> 90,
                         reasoning |-> <<"Both", entries[i].formula,
                                         entries[i + 1].formula, "are", group.name>>]]]

\* memgraph_analyze_periodic_trends: the MERGE queries of one call
analyze_periodic_trends(rows, create_rels, group_filter) ==
    ConcatAll([g \in 1..Len(periodic_groups) |->
        IF group_filter # "" /\ periodic_groups[g].name # group_filter THEN <<>>
        ELSE IF ~create_rels THEN <<>>
        ELSE GroupWrites(periodic_groups[g],
                         GroupRows(rows, periodic_groups[g].elements))])

\* '^[A-Z][a-z]?[0-9]+$': one element symbol followed by digits
IsClusterFormula(s) ==
    LET se == SymbolEnd(s, 1) IN
    /\ se # 0
    /\ DigitsEnd(s, se) > se
    /\ DigitsEnd(s, se) = Len(s) + 1

ClusterElement(s) == SubSeq(s, 1, SymbolEnd(s, 1) - 1)

ClusterSize(s) == IntOf(SubSeq(s, SymbolEnd(s, 1), Len(s)))

RECURSIVE InsertBySize(_, _)
\* clusters.sort(key=lambda x: x['size']) is stable
InsertBySize(sorted, r) ==
    IF sorted = <<>> THEN <<r>>
    ELSE IF ClusterSize(Head(sorted).formula) <= ClusterSize(r.formula)
         THEN <<Head(sorted)>> \o InsertBySize(Tail(sorted), r)
         ELSE <<r>> \o sorted

RECURSIVE SortBySize(_)
SortBySize(clusters) ==
    IF clusters = <<>> THEN <<>>
    ELSE InsertBySize(SortBySize(SubSeq(clusters, 1, Len(clusters) - 1)),
                      clusters[Len(clusters)])

\* min(1.0, 0.7 + 0.3 * (1.0 / (size_to - size_from))), in hundredths,
\* rounded down
pattern_confidence(size_from, size_to) ==
    Min(100, 70 + (30 \div (size_to - size_from)))

\* The MERGE queries for the clusters of one element (lines 546-580)
ElementSeriesWrites(clusters, min_confidence) ==
    LET sorted == SortBySize(clusters)
        Write(i) ==
            LET size_from == ClusterSize(sorted[i].formula)
                size_to == ClusterSize(sorted[i + 1].formula)
            IN  IF size_to > size_from
                   /\ pattern_confidence(size_from, size_to) >= min_confidence
                THEN << [from_entry_id |-> sorted[i].entry_id,
                         to_entry_id |-> sorted[i + 1].entry_id,
                         relationship_type |-> "CLUSTER_SIZE_SERIES",
                         properties |->
                            [size_from |-> size_from, size_to |-> size_to,
                             confidence |-> pattern_confidence(size_from, size_to),
                             reasoning |-> <<"Cluster size progression from",
                                             sorted[i].formula, "to",
                                             sorted[i + 1].formula>>]] >>
                ELSE <<>>
    IN  IF Len(clusters) > 1
        THEN ConcatAll([i \in 1..(Len(sorted) - 1) |-> Write(i)])
        ELSE <<>>

\* memgraph_analyze_cluster_patterns: the MERGE queries of one call
\* (element <<>>: no element argument)
analyze_cluster_patterns(rows, element, create_rels, min_confidence) ==
    LET entries == SelectSeq(rows, LAMBDA r :
                       /\ IsClusterFormula(r.formula)
                       /\ element # <<>> => ClusterElement(r.formula) = element)
        elems == FirstOccurrences([k \in 1..Len(entries) |->
                                      ClusterElement(entries[k].formula)])
    IN  IF ~create_rels THEN <<>>
        ELSE ConcatAll([e \in 1..Len(elems) |->
                ElementSeriesWrites(
                    SelectSeq(entries, LAMBDA r : ClusterElement(r.formula) = elems[e]),
                    min_confidence)])

\* One tool call has issued its queries: the first n MERGEs took effect, the
\* next query, if any, raised and call_tool returned the error text.  With
\* one node per entry_id a MERGE adds the edge unless the same edge exists.
ToolCall(name, arguments, writes) ==
    /\ toolCalls < MaxToolCalls
    /\ toolCalls' = toolCalls + 1
    /\ \E n \in 0..Len(writes) :
          /\ IF n < Len(writes)
             THEN failures < MaxFailures /\ failures' = failures + 1
             ELSE UNCHANGED failures
          /\ toolEdges' = toolEdges \cup {writes[k] : k \in 1..n}
          /\ lastTool' = [name |-> name, arguments |-> arguments,
                          writes |-> SubSeq(writes, 1, n)]
    /\ UNCHANGED <<parseVars, inferVars, clusterVars, normVars, cfgVars, runVars,
                   storeVars, obsVars, extVars, svcTotal, svcMode, requests,
                   delivered, sentAtCount, failedAt>>

\* call_tool "memgraph_analyze_periodic_trends"
AnalyzePeriodicTrends ==
    \E create_rels \in BOOLEAN, group_filter \in {"", "halogens"} :
        ToolCall("memgraph_analyze_periodic_trends",
                 [create_relationships |-> create_rels, group_filter |-> group_filter],
                 analyze_periodic_trends(graph_entries, create_rels, group_filter))

\* call_tool "memgraph_analyze_cluster_patterns" (min_confidence: the
\* default 0.8, or 0.0)
AnalyzeClusterPatterns ==
    \E element \in {<<>>, <<"C">>}, create_rels \in BOOLEAN, min_confidence \in {80, 0} :
        ToolCall("memgraph_analyze_cluster_patterns",
                 [element |-> element, create_relationships |-> create_rels,
                  min_confidence |-> min_confidence],
                 analyze_cluster_patterns(graph_entries, element, create_rels,
                                          min_confidence))

(***************************************************************************)
(* WorkflowOrchestrator.reconstruct_dataset_workflow                       *)
(***************************************************************************)
\* "if total_estimated > 1000", scaled down
LargeThreshold == 4
\* "max_entries = 500", scaled down
SampleCap == 3
\* "max_entries=50" and "page_size: 50" of the preview, scaled down
PreviewCap == 1
\* Number of reconstruction runs followed
MaxRuns == 2

IdentifierTypes == {"dataset_id", "upload_id", "upload_name", "other"}
SupportedIdentifierTypes == {"dataset_id", "upload_id", "upload_name"}

NoSummary == [dataset_id |-> "", entries_processed |-> 0, relationships_created |-> 0,
              entry_types |-> {}, upload_clusters |-> {}]

\* The run's local variables before the call
RunLocalsInit ==
    /\ total_estimated = 0
    /\ raw_entries = <<>>
    /\ workflow_entries = <<>>
    /\ relationships = <<>>
    /\ idx = 0
    /\ summary = NoSummary
    /\ nodeTried = 0
    /\ edgeTried = 0
    /\ edgeOk = 0
    /\ failedNode = 0
    /\ failedEdge = 0

RunIdle ==
    /\ dataset_identifier = ""
    /\ identifier_type = "upload_id"
    /\ rpc = "idle"
    /\ runNo = 0
    /\ RunLocalsInit
    /\ datasetNodes = EmptyMap
    /\ entryNodes = EmptyMap
    /\ containsEdges = 0
    /\ relEdges = EmptyMap
    /\ prevDone = FALSE
    /\ prevEntries = <<>>
    /\ prevEntryNodes = 0
    /\ prevDatasetNodes = 0

\* Lines 46-55: the preview call is started
StartPreview ==
    /\ rpc = "start"
    /\ rpc' = "preview"
    /\ IF identifier_type = "dataset_id" THEN ExtCall("dataset", PreviewCap, PageSize)
       ELSE IF identifier_type = "upload_id" THEN ExtCall("upload", PreviewCap, PageSize)
       ELSE ExtCall("search", 0, PreviewCap)
    /\ UNCHANGED <<sideVars, cfgVars, storeVars, obsVars, svcTotal, svcMode, failures,
                   runNo, total_estimated, raw_entries, workflow_entries, relationships,
                   idx, summary>>

\* Lines 57-80: total_estimated, the cap, and the start of the extraction call
StartExtraction ==
    /\ rpc = "preview"
    /\ epc = "returned"
    /\ rpc' = "extract"
    /\ total_estimated' = eresult.total
    /\ LET cap == IF eresult.total > LargeThreshold THEN SampleCap ELSE 0 IN
       IF identifier_type = "dataset_id" THEN ExtCall("dataset", cap, PageSize)
       ELSE IF identifier_type = "upload_id" THEN ExtCall("upload", cap, PageSize)
       ELSE ExtCall("search", cap, IF cap # 0 THEN Min(cap, PageSize) ELSE 0)
    /\ UNCHANGED <<sideVars, cfgVars, storeVars, obsVars, svcTotal, svcMode, failures,
                   runNo, raw_entries, workflow_entries, relationships, idx, summary>>

\* An exception of search_entries leaves reconstruct_dataset_workflow
SearchRaised ==
    /\ rpc \in {"preview", "extract"}
    /\ epc = "raised"
    /\ rpc' = "raised"
    /\ UNCHANGED <<sideVars, cfgVars, storeVars, obsVars, svcVars, extVars,
                   runNo, total_estimated, raw_entries, workflow_entries, relationships,
                   idx, summary>>

\* Lines 82-165: the raw entries are converted to WorkflowEntry values
NormalizeEntries ==
    /\ rpc = "extract"
    /\ epc = "returned"
    /\ rpc' = "dataset_node"
    /\ raw_entries' = eresult.data
    /\ workflow_entries' = Normalize(eresult.data)
    /\ UNCHANGED <<sideVars, cfgVars, storeVars, obsVars, svcVars, extVars,
                   runNo, total_estimated, relationships, idx, summary>>

\* _create_dataset_graph, lines 241-258: connect and MERGE the Dataset node;
\* a failure is re-raised
WriteDatasetNode ==
    /\ rpc = "dataset_node"
    /\ UNCHANGED <<sideVars, cfgVars, extVars, svcTotal, svcMode, requests, delivered,
                   sentAtCount, failedAt, runNo, total_estimated, raw_entries,
                   workflow_entries, relationships, summary, entryNodes,
                   containsEdges, relEdges, obsVars>>
    /\ \/ /\ datasetNodes' = MergeDatasetNode(datasetNodes, dataset_identifier,
                                              Len(workflow_entries))
          /\ rpc' = "entry_nodes"
          /\ idx' = 1
          /\ UNCHANGED failures
       \/ /\ failures < MaxFailures
          /\ failures' = failures + 1
          /\ rpc' = "raised"
          /\ UNCHANGED <<datasetNodes, idx>>

\* _create_dataset_graph, lines 262-301: one iteration of the loop over the
\* entries; a failure is re-raised
WriteEntryNode ==
    /\ rpc = "entry_nodes"
    /\ idx <= Len(workflow_entries)
    /\ nodeTried' = nodeTried + 1
    /\ UNCHANGED <<sideVars, cfgVars, extVars, svcTotal, svcMode, requests, delivered,
                   sentAtCount, failedAt, runNo, total_estimated, raw_entries,
                   workflow_entries, relationships, summary, datasetNodes, relEdges,
                   edgeTried, edgeOk, failedEdge, prevDone, prevEntries,
                   prevEntryNodes, prevDatasetNodes>>
    /\ \/ /\ entryNodes' = CreateEntryNode(entryNodes, workflow_entries[idx].entry_id)
          /\ containsEdges' = containsEdges
                + (IF dataset_identifier \in DOMAIN datasetNodes THEN 1 ELSE 0)
          /\ idx' = idx + 1
          /\ UNCHANGED <<rpc, failures, failedNode>>
       \/ /\ failures < MaxFailures
          /\ failures' = failures + 1
          /\ failedNode' = idx
          /\ rpc' = "raised"
          /\ UNCHANGED <<entryNodes, containsEdges, idx>>

\* Faulty variant of InferRelationships: the inference and the edge writes
\* do not wait for the loop over the Entry nodes
InferRelationshipsEarly ==
    /\ rpc = "entry_nodes"
    /\ relationships' = _infer_workflow_relationships(workflow_entries)
    /\ rpc' = "edges"
    /\ idx' = 1
    /\ UNCHANGED <<sideVars, cfgVars, storeVars, obsVars, svcVars, extVars,
                   runNo, total_estimated, raw_entries, workflow_entries, summary>>

\* Line 173: _infer_workflow_relationships, once every node is written
InferRelationships ==
    /\ rpc = "entry_nodes"
    /\ idx > Len(workflow_entries)
    /\ relationships' = _infer_workflow_relationships(workflow_entries)
    /\ rpc' = "edges"
    /\ idx' = 1
    /\ UNCHANGED <<sideVars, cfgVars, storeVars, obsVars, svcVars, extVars,
                   runNo, total_estimated, raw_entries, workflow_entries, summary>>

\* _create_workflow_relationships: one iteration; a failure is printed and
\* the loop goes on
WriteRelationship ==
    /\ rpc = "edges"
    /\ idx <= Len(relationships)
    /\ edgeTried' = edgeTried + 1
    /\ idx' = idx + 1
    /\ UNCHANGED <<sideVars, cfgVars, extVars, svcTotal, svcMode, requests, delivered,
                   sentAtCount, failedAt, rpc, runNo, total_estimated, raw_entries,
                   workflow_entries, relationships, summary, datasetNodes, entryNodes,
                   containsEdges, nodeTried, failedNode, prevDone, prevEntries,
                   prevEntryNodes, prevDatasetNodes>>
    /\ \/ /\ relEdges' = CreateRelationship(relEdges, relationships[idx])
          /\ edgeOk' = edgeOk + 1
          /\ UNCHANGED <<failures, failedEdge>>
       \/ /\ failures < MaxFailures
          /\ failures' = failures + 1
          /\ failedEdge' = idx
          /\ UNCHANGED <<relEdges, edgeOk>>

\* Lines 177-201: the summary
Summarize ==
    /\ rpc = "edges"
    /\ idx > Len(relationships)
    /\ rpc' = "done"
    /\ summary' =
          [dataset_id |-> dataset_identifier,
           entries_processed |-> Len(workflow_entries),
           relationships_created |-> Len(relationships),
           entry_types |-> {workflow_entries[k].entry_type : k \in 1..Len(workflow_entries)},
           upload_clusters |-> {workflow_entries[k].upload_name :
                                   k \in 1..Len(workflow_entries)} \ {""}]
    /\ UNCHANGED <<sideVars, cfgVars, storeVars, obsVars, svcVars, extVars,
                   runNo, total_estimated, raw_entries, workflow_entries, relationships, idx>>

\* Total number of Entry nodes in the store
EntryNodeCount == SumOver(DOMAIN entryNodes, entryNodes)

\* The caller runs the reconstruction again on the same identifier
RunAgain ==
    /\ rpc \in {"done", "raised"}
    /\ runNo < MaxRuns
    /\ runNo' = runNo + 1
    /\ rpc' = "start"
    /\ prevDone' = (rpc = "done")
    /\ prevEntries' = workflow_entries
    /\ prevEntryNodes' = EntryNodeCount
    /\ prevDatasetNodes' = Cardinality(DOMAIN datasetNodes)
    /\ total_estimated' = 0
    /\ raw_entries' = <<>>
    /\ workflow_entries' = <<>>
    /\ relationships' = <<>>
    /\ idx' = 0
    /\ summary' = NoSummary
    /\ nodeTried' = 0
    /\ edgeTried' = 0
    /\ edgeOk' = 0
    /\ failedNode' = 0
    /\ failedEdge' = 0
    /\ UNCHANGED <<sideVars, cfgVars, storeVars, svcVars, extVars>>

\* A direct call of one client method, with any cap
ExtractInit ==
    /\ ParseIdle
    /\ InferIdle
    /\ NormIdle
    /\ ToolIdle
    /\ ClusterIdle
    /\ RunIdle
    /\ svcTotal \in 0..MaxTotal
    /\ svcMode \in {"honest", "looping"}
    /\ failures = 0
    /\ method \in PagingMethods \cup {"search"}
    /\ max_entries \in 0..MaxCap
    /\ page_size \in (IF method = "search" THEN {0, PageSize} ELSE {PageSize})
    /\ epc = IF method = "legacy_upload" THEN "info" ELSE "loop"
    /\ all_entries = <<>>
    /\ page_after_value = 0
    /\ page = 0
    /\ total_entries = 0
    /\ pages_fetched = 0
    /\ eresult = [data |-> <<>>, total |-> 0, pages_fetched |-> 0]
    /\ requests = 0
    /\ delivered = <<>>
    /\ sentAtCount = 0
    /\ failedAt = 0

ExtractNext ==
    \/ ImprovedFetchPage
    \/ LegacyUploadInfo
    \/ LegacyFetchPage
    \/ SearchEntries

SpecExtract == ExtractInit /\ [][ExtractNext]_vars

\* One orchestrator, an empty store and an honest service
Init ==
    /\ ParseIdle
    /\ InferIdle
    /\ NormIdle
    /\ ToolIdle
    /\ ClusterIdle
    /\ ExtractIdle
    /\ svcTotal \in 0..MaxTotal
    /\ svcMode = "honest"
    /\ failures = 0
    /\ dataset_identifier \in {"", "ds1"}
    /\ identifier_type \in IdentifierTypes
    /\ rpc = "start"
    /\ runNo = 1
    /\ RunLocalsInit
    /\ datasetNodes = EmptyMap
    /\ entryNodes = EmptyMap
    /\ containsEdges = 0
    /\ relEdges = EmptyMap
    /\ prevDone = FALSE
    /\ prevEntries = <<>>
    /\ prevEntryNodes = 0
    /\ prevDatasetNodes = 0

Next ==
    \/ StartPreview
    \/ ImprovedFetchPage
    \/ SearchEntries
    \/ StartExtraction
    \/ SearchRaised
    \/ NormalizeEntries
    \/ WriteDatasetNode
    \/ WriteEntryNode
    \/ InferRelationships
    \/ WriteRelationship
    \/ Summarize
    \/ RunAgain

Spec == Init /\ [][Next]_vars

ParseInit ==
    /\ formula \in Strings
    /\ parsed = EmptyMap
    /\ parsedElems = EmptyMap
    /\ fpc = "input"
    /\ InferIdle
    /\ NormIdle
    /\ ToolIdle
    /\ ClusterIdle
    /\ ExtractIdle
    /\ RunIdle
    /\ svcTotal = 0
    /\ svcMode = "honest"
    /\ failures = 0

\* One call of each parser on the same input
Parse ==
    /\ fpc = "input"
    /\ parsed' = parse_formula_carefully(formula)
    /\ parsedElems' = _parse_formula_elements(formula)
    /\ fpc' = "parsed"
    /\ UNCHANGED <<formula, inferVars, clusterVars, normVars, toolVars, svcVars, extVars, cfgVars, runVars, storeVars,
                   obsVars>>

SpecParse == ParseInit /\ [][Parse]_vars

\* A call of _sort_entries_by_execution_order and one of
\* _infer_workflow_relationships on a given entry list
InferInit ==
    /\ ientries \in ClassifierInputs \cup RecordSets
    /\ isorted = <<>>
    /\ iedges = <<>>
    /\ ipc = "input"
    /\ ParseIdle
    /\ ClusterIdle
    /\ NormIdle
    /\ ToolIdle
    /\ ExtractIdle
    /\ RunIdle
    /\ svcTotal = 0
    /\ svcMode = "honest"
    /\ failures = 0

Infer ==
    /\ ipc = "input"
    /\ isorted' = _sort_entries_by_execution_order(ientries)
    /\ iedges' = _infer_workflow_relationships(ientries)
    /\ ipc' = "done"
    /\ UNCHANGED <<ientries, parseVars, clusterVars, normVars, toolVars, svcVars, extVars, cfgVars, runVars, storeVars,
                   obsVars>>

SpecInfer == InferInit /\ [][Infer]_vars

\* Steps 3 and 4 of reconstruct_dataset_workflow on a given list of raw
\* records: the normalisation loop, then the inference on its result
NormalizeInit ==
    /\ nraw \in RawLists
    /\ nentries = <<>>
    /\ nedges = <<>>
    /\ npc = "input"
    /\ ParseIdle
    /\ InferIdle
    /\ ClusterIdle
    /\ ToolIdle
    /\ ExtractIdle
    /\ RunIdle
    /\ svcTotal = 0
    /\ svcMode = "honest"
    /\ failures = 0

NormalizeAndInfer ==
    /\ npc = "input"
    /\ nentries' = NormalizeRecords(nraw)
    /\ nedges' = _infer_workflow_relationships(NormalizeRecords(nraw))
    /\ npc' = "done"
    /\ UNCHANGED <<nraw, parseVars, inferVars, clusterVars, toolVars, svcVars, extVars,
                   cfgVars, runVars, storeVars, obsVars>>

SpecNormalize == NormalizeInit /\ [][NormalizeAndInfer]_vars

\* The scripts and the clear tool against a store that earlier
\* reconstructions filled: one Entry node per row, a Dataset node per dataset
ClusterInit ==
    /\ graph_entries \in StoredRows
    /\ cscript = "none"
    /\ cpc = "idle"
    /\ cwrites = <<>>
    /\ cidx = 0
    /\ series_created = 0
    /\ cruns = 0
    /\ lastDelete = NoDelete
    /\ datasetNodes =
          [d \in {graph_entries[k].dataset_id : k \in 1..Len(graph_entries)} |->
              Cardinality({k \in 1..Len(graph_entries) : graph_entries[k].dataset_id = d})]
    /\ entryNodes = [id \in 1..Len(graph_entries) |-> 1]
    /\ containsEdges = Len(graph_entries)
    /\ relEdges = EmptyMap
    /\ ParseIdle
    /\ InferIdle
    /\ NormIdle
    /\ ToolIdle
    /\ ExtractIdle
    /\ svcTotal = 0
    /\ svcMode = "honest"
    /\ failures = 0
    /\ dataset_identifier = ""
    /\ identifier_type = "upload_id"
    /\ rpc = "idle"
    /\ runNo = 0
    /\ RunLocalsInit
    /\ prevDone = FALSE
    /\ prevEntries = <<>>
    /\ prevEntryNodes = 0
    /\ prevDatasetNodes = 0

ClusterNext ==
    \/ StartScript
    \/ WriteSeriesEdge
    \/ FinishScript
    \/ ClearDataset

SpecCluster == ClusterInit /\ [][ClusterNext]_vars

\* The analysis tools against a store that holds one Entry node per row
ToolsInit ==
    /\ graph_entries \in ToolRows
    /\ cscript = "none"
    /\ cpc = "idle"
    /\ cwrites = <<>>
    /\ cidx = 0
    /\ series_created = 0
    /\ cruns = 0
    /\ lastDelete = NoDelete
    /\ ToolIdle
    /\ datasetNodes = [d \in {"ds1"} |-> Len(graph_entries)]
    /\ entryNodes = [id \in 1..Len(graph_entries) |-> 1]
    /\ containsEdges = Len(graph_entries)
    /\ relEdges = EmptyMap
    /\ ParseIdle
    /\ InferIdle
    /\ NormIdle
    /\ ExtractIdle
    /\ svcTotal = 0
    /\ svcMode = "honest"
    /\ failures = 0
    /\ dataset_identifier = ""
    /\ identifier_type = "upload_id"
    /\ rpc = "idle"
    /\ runNo = 0
    /\ RunLocalsInit
    /\ prevDone = FALSE
    /\ prevEntries = <<>>
    /\ prevEntryNodes = 0
    /\ prevDatasetNodes = 0

ToolsNext ==
    \/ AnalyzePeriodicTrends
    \/ AnalyzeClusterPatterns

SpecTools == ToolsInit /\ [][ToolsNext]_vars

(***************************************************************************)
(* C10: for a formula that is a concatenation of (symbol, optional digits) *)
(* tokens, each symbol's value is the sum of the counts of its tokens.    *)
(***************************************************************************)
\* Position-wise description of a token concatenation: only letters and
\* digits, starting with an upper-case letter, every lower-case letter
\* directly after an upper-case one.
IsTokenConcat(s) ==
    /\ \A i \in 1..Len(s) : s[i] \in Upper \cup Lower \cup Digit
    /\ Len(s) > 0 => s[1] \in Upper
    /\ \A i \in 1..Len(s) : s[i] \in Lower => (i > 1 /\ s[i - 1] \in Upper)

\* The token that starts at the upper-case position i
TokenSymbol(s, i) ==
    IF i < Len(s) /\ s[i + 1] \in Lower THEN <<s[i], s[i + 1]>> ELSE <<s[i]>>

TokenDigits(s, i) ==
    LET from == i + Len(TokenSymbol(s, i))
        stop == CHOOSE j \in from..(Len(s) + 1) :
                    /\ \A k \in from..(j - 1) : s[k] \in Digit
                    /\ (j = Len(s) + 1 \/ s[j] \notin Digit)
    IN SubSeq(s, from, stop - 1)

TokenCount(s, i) ==
    LET ds == TokenDigits(s, i) IN
    IF Len(ds) = 0 THEN 1
    ELSE SumOver(1..Len(ds),
                 [k \in 1..Len(ds) |->
                    DigitVal(ds[k]) * (10 ^ (Len(ds) - k))])

TokenStarts(s) == {i \in 1..Len(s) : s[i] \in Upper}

\* The map the specification asks for
ExpectedComposition(s) ==
    LET syms == {TokenSymbol(s, i) : i \in TokenStarts(s)} IN
    [sym \in syms |->
        SumOver({i \in TokenStarts(s) : TokenSymbol(s, i) = sym},
                [i \in TokenStarts(s) |-> TokenCount(s, i)])]

\* C10: both parsers return, for every token concatenation, the per-symbol
\* sum of the token counts (digits absent count 1), so the values sum to the
\* total atom count; Ag2 gives {Ag:2}, C gives {C:1}.
C10_ParserSumsTokens ==
    (fpc = "parsed" /\ IsTokenConcat(formula)) =>
        /\ parsed = ExpectedComposition(formula)
        /\ parsedElems = ExpectedComposition(formula)
        /\ SumOver(DOMAIN parsed, parsed)
             = SumOver(TokenStarts(formula),
                       [i \in TokenStarts(formula) |-> TokenCount(formula, i)])

\* A repeated symbol has been parsed: C2C2 gives {C:4}
C10_Witness ==
    /\ fpc = "parsed"
    /\ formula = <<"C", "2", "C", "2">>
    /\ parsed = (<<"C">> :> 4)

\* C11: every count in the map parse_formula_carefully returns is a positive
\* integer (at least 1), for every input string, an explicit zero count such
\* as C0 included.
C11_CountsArePositive ==
    fpc = "parsed" => \A element \in DOMAIN parsed : parsed[element] >= 1

\* C12: parse_formula_carefully returns the empty map for the empty string and
\* for every string that is not entirely a concatenation of (element symbol,
\* optional digits) tokens, such as 2Ag, Ag2g or g.
C12_MalformedGivesEmptyMap ==
    (fpc = "parsed" /\ (formula = <<>> \/ ~IsTokenConcat(formula))) =>
        parsed = EmptyMap

(***************************************************************************)
(* Claims about reconstruct_dataset_workflow and the graph store (Spec)    *)
(***************************************************************************)
\* The configuration errors the specification names
ConfigError ==
    \/ dataset_identifier = ""
    \/ identifier_type \notin SupportedIdentifierTypes

RunEnded == rpc \in {"done", "raised"}

\* C1: a second complete run on the same identifier and the same Entry set
\* leaves as many Dataset and Entry nodes in the store as the first run did.
C1_RerunCreatesNoDuplicateNodes ==
    (runNo >= 2 /\ rpc = "done" /\ prevDone /\ workflow_entries = prevEntries) =>
        /\ EntryNodeCount = prevEntryNodes
        /\ Cardinality(DOMAIN datasetNodes) = prevDatasetNodes

\* C2: reconstruct_dataset_workflow raises only for a configuration error,
\* whatever page request or store write fails.
C2_RaisesOnlyOnConfigError ==
    rpc = "raised" => ConfigError

\* C3: a failed Entry node or edge write is skipped and every remaining node
\* and edge write of the run is still attempted.
C3_FailedWriteSkipsOnlyThatItem ==
    (RunEnded /\ (failedNode > 0 \/ failedEdge > 0)) =>
        /\ nodeTried = Len(workflow_entries)
        /\ edgeTried = Len(_infer_workflow_relationships(workflow_entries))

\* C4: relationships_created of the returned summary is the number of edge
\* writes that succeeded.
C4_SummaryCountsSucceededEdges ==
    rpc = "done" => summary.relationships_created = edgeOk

\* C5: with an empty dataset identifier or an unsupported addressing
\* strategy no request reaches the service and no write reaches the store.
C5_ConfigErrorSendsNothing ==
    ConfigError =>
        /\ requests = 0
        /\ datasetNodes = EmptyMap
        /\ nodeTried = 0
        /\ edgeTried = 0

\* C6: when no request fails and the declared total is at most the
\* large-dataset threshold, the extraction call returns every record the
\* service holds, for each of the three addressing strategies.
C6_ExtractionIsComplete ==
    (/\ rpc = "extract"
     /\ epc = "returned"
     /\ failures = 0
     /\ identifier_type \in SupportedIdentifierTypes
     /\ svcTotal <= LargeThreshold) =>
        Len(eresult.data) = svcTotal

(***************************************************************************)
(* Claims about the paginated extractor (SpecExtract)                      *)
(***************************************************************************)
\* The first n elements of a sequence (all of it when it is shorter)
Prefix(seq, n) == SubSeq(seq, 1, Min(n, Len(seq)))

CallEnded == epc \in {"returned", "raised"}

\* C7: in get_upload_entries / get_dataset_entries, when page request k fails
\* after pages 1..k-1 succeeded, the call returns (does not raise), has sent
\* no request after the failed one, and its data are exactly the records of
\* the k-1 full pages delivered before, cut to the cap when one is set.
C7_PartialResultOnPageFailure ==
    (CallEnded /\ method \in PagingMethods /\ failedAt > 0) =>
        /\ epc = "returned"
        /\ requests = failedAt
        /\ Len(delivered) = (failedAt - 1) * page_size
        /\ eresult.data = IF max_entries = 0 THEN delivered
                          ELSE Prefix(delivered, max_entries)

\* The second page request of a paging call failed and the first page came back
C7_Witness ==
    /\ epc = "returned"
    /\ method \in PagingMethods
    /\ failedAt = 2
    /\ Len(eresult.data) = PageSize

\* C8: the pagination loop sends a bounded number of page requests, whatever
\* the service answers: never more than the page ceiling allows.
C8_PageCeilingBoundsRequests ==
    method \in PagingMethods => requests <= PageCeiling + 1

\* C9: with a cap N the extractor returns the first min(N, received) records
\* in delivery order, never more than N, and sends no page request once the
\* accumulated count has reached N.
C9_CapKeepsFirstN ==
    (method \in PagingMethods /\ max_entries > 0) =>
        /\ (requests > 0 => sentAtCount < max_entries)
        /\ epc = "returned" =>
              /\ Len(eresult.data) = Min(max_entries, Len(delivered))
              /\ Len(eresult.data) <= max_entries
              /\ eresult.data = SubSeq(delivered, 1, Len(eresult.data))

\* A capped call that received more records than the cap and cut them
C9_Witness ==
    /\ epc = "returned"
    /\ method \in PagingMethods
    /\ max_entries = 3
    /\ Len(delivered) > 3
    /\ eresult.data = <<1, 2, 3>>

(***************************************************************************)
(* Claims about the classifier and the inference engine (SpecInfer)        *)
(***************************************************************************)
\* Position of the stage an entry_type is tagged with (0: none of the three)
StageRank(entry_type) ==
    IF entry_type = "optimization" THEN 1
    ELSE IF entry_type = "scf" THEN 2
    ELSE IF entry_type = "dos" THEN 3
    ELSE 0

\* C13: for any input order of a group and any file-summary values,
\* _sort_entries_by_execution_order returns every entry tagged optimization
\* before every entry tagged scf, and every entry tagged scf before every
\* entry tagged dos.
C13_StagesAreGrouped ==
    ipc = "done" =>
        \A i, j \in 1..Len(isorted) :
            (/\ StageRank(isorted[i].entry_type) # 0
             /\ StageRank(isorted[j].entry_type) # 0
             /\ StageRank(isorted[i].entry_type) < StageRank(isorted[j].entry_type))
                => i < j

\* A group as the end-to-end scenario describes it: n >= 2 entries of one
\* upload, one non-empty formula, the default entry_type, no file signals
UniformGroup(entries) ==
    /\ Len(entries) >= 2
    /\ entries[1].upload_name # ""
    /\ entries[1].formula # ""
    /\ \A k \in 1..Len(entries) :
          /\ entries[k].upload_name = entries[1].upload_name
          /\ entries[k].formula = entries[1].formula
          /\ entries[k].entry_type = "calculation"
          /\ entries[k].file_structure = NoFiles

\* The edges are the chain over the input order, all of one type, confidence 0.8
ChainOfType(entries, edges, relationship_type) ==
    /\ Len(edges) = Len(entries) - 1
    /\ \A i \in 1..Len(edges) :
          /\ edges[i].from_entry_id = entries[i].entry_id
          /\ edges[i].to_entry_id = entries[i + 1].entry_id
          /\ edges[i].relationship_type = relationship_type
          /\ edges[i].properties.confidence = 8

\* C14 as stated: for a uniform group of n >= 2 entries the classifier keeps
\* the input order and the engine emits exactly n-1 edges, each of type
\* WORKFLOW_STEP with confidence 0.8.
C14_UniformGroupGivesWorkflowSteps ==
    (ipc = "done" /\ UniformGroup(ientries)) =>
        /\ isorted = ientries
        /\ ChainOfType(ientries, iedges, "WORKFLOW_STEP")

\* C14 amended: for a uniform group of n >= 2 entries the classifier keeps
\* the input order and the engine emits exactly n-1 edges, each of type
\* SIMILAR_CALCULATION (the entry types are identical) with confidence 0.8.
C14_UniformGroupGivesSimilarCalculations ==
    (ipc = "done" /\ UniformGroup(ientries)) =>
        /\ isorted = ientries
        /\ ChainOfType(ientries, iedges, "SIMILAR_CALCULATION")

\* A uniform group of three entries has been chained by two edges
C14_Witness ==
    /\ ipc = "done"
    /\ UniformGroup(ientries)
    /\ Len(ientries) = 3
    /\ Len(iedges) = 2
    /\ iedges[2].relationship_type = "SIMILAR_CALCULATION"

\* The upload groups in which formula f occurs
GroupsWith(entries, f) ==
    {entries[k].upload_name : k \in {m \in 1..Len(entries) : entries[m].formula = f}}
        \ {""}

\* entry_id of the first entry of upload u that has formula f
FirstOf(entries, f, u) ==
    LET hits == {k \in 1..Len(entries) :
                    entries[k].formula = f /\ entries[k].upload_name = u}
    IN entries[CHOOSE k \in hits : \A m \in hits : k <= m].entry_id

SameMaterialEdges(edges) ==
    {k \in 1..Len(edges) : edges[k].relationship_type = "SAME_MATERIAL"}

IdsDistinct(entries) ==
    \A i, j \in 1..Len(entries) : entries[i].entry_id = entries[j].entry_id => i = j

\* C15: for each non-empty formula that occurs in k distinct upload groups
\* the engine emits k(k-1)/2 SAME_MATERIAL edges with confidence 0.8 (none
\* when k = 1), and, entry ids being distinct, exactly one for each unordered
\* pair of those groups, joining the first entries of the two groups.
C15_OneSameMaterialEdgePerGroupPair ==
    ipc = "done" =>
        LET sm == SameMaterialEdges(iedges)
            fs == {ientries[k].formula : k \in 1..Len(ientries)} \ {""}
        IN  /\ \A k \in sm : /\ iedges[k].properties.confidence = 8
                             /\ iedges[k].properties.formula \in fs
            /\ \A f \in fs :
                  LET g == GroupsWith(ientries, f)
                      n == Cardinality(g)
                      of_f == {k \in sm : iedges[k].properties.formula = f}
                  IN  /\ Cardinality(of_f) = (n * (n - 1)) \div 2
                      /\ IdsDistinct(ientries) =>
                            \A a, b \in g : a # b =>
                                Cardinality({k \in of_f :
                                    {iedges[k].from_entry_id, iedges[k].to_entry_id}
                                      = {FirstOf(ientries, f, a), FirstOf(ientries, f, b)}})
                                  = 1

\* One formula in three uploads has given three edges, and a second entry of
\* an upload none
C15_Witness ==
    /\ ipc = "done"
    /\ Len(ientries) = 3
    /\ Cardinality(GroupsWith(ientries, "Na3")) = 3
    /\ Cardinality(SameMaterialEdges(iedges)) = 3

\* C19: every edge _infer_workflow_relationships produces joins two different
\* entry ids, also when the same entry_id appears in two records.
C19_NoSelfLoops ==
    ipc = "done" =>
        \A k \in 1..Len(iedges) : iedges[k].from_entry_id # iedges[k].to_entry_id

\* The elements of a stored row, and its number of atoms
RowElements(r) == DOMAIN parse_formula_carefully(r.formula)

RowSize(r) == total_atoms(parse_formula_carefully(r.formula))

RowWithId(id) ==
    graph_entries[CHOOSE k \in 1..Len(graph_entries) : graph_entries[k].entry_id = id]

\* Only entries of one element are stored, in exactly two distinct sizes
OneElementTwoSizes ==
    /\ \E e \in {<<"A", "g">>, <<"C">>} :
          \A k \in 1..Len(graph_entries) : RowElements(graph_entries[k]) = {e}
    /\ Cardinality({RowSize(graph_entries[k]) : k \in 1..Len(graph_entries)}) = 2

\* Two entries are stored, of equal size and different elements
EqualSizeDifferentElements ==
    /\ Len(graph_entries) = 2
    /\ RowSize(graph_entries[1]) = RowSize(graph_entries[2])
    /\ RowElements(graph_entries[1]) \cap RowElements(graph_entries[2]) = {}

\* One script has run to its end on a store without series edges, every
\* query succeeded, and nothing was cleared afterwards
OneCleanScriptRun ==
    /\ cpc = "done"
    /\ cruns = 1
    /\ failures = 0
    /\ lastDelete.op # "clear_dataset"

\* C16: after one run of any of the three cluster-size scripts, a store that
\* holds one element in exactly two sizes has exactly one CLUSTER_SIZE_SERIES
\* edge, from the smaller to the larger entry, and a store that holds two
\* entries of equal size and different elements has none.
C16_OneSeriesEdgePerTwoSizes ==
    OneCleanScriptRun =>
        /\ OneElementTwoSizes =>
              /\ EdgeCount(SeriesKeys) = 1
              /\ \A key \in SeriesKeys :
                    RowSize(RowWithId(key[1])) < RowSize(RowWithId(key[2]))
        /\ EqualSizeDifferentElements => SeriesKeys = {}

\* C18: a clear or clean-up removes something only when its confirmation
\* flag was true, and removes something outside the one named dataset only
\* when the scope given was "all".
C18_DeletionNeedsConfirmation ==
    lastDelete.removed > 0 =>
        /\ lastDelete.confirm
        /\ lastDelete.dataset_id # "all" =>
              lastDelete.datasets_hit \subseteq {lastDelete.dataset_id}

\* C20: the CREATE queries of one run of enhance_cluster_relationships
\* (same-element, family and global series together) carry pairwise
\* different (from id, to id, type) triples.
C20_NoDuplicateEdgeWrites ==
    (cscript = "enhance" /\ cpc \in {"writing", "done"}) =>
        \A i, j \in 1..Len(cwrites) :
            i # j =>
                <<cwrites[i].from_entry_id, cwrites[i].to_entry_id,
                  cwrites[i].relationship_type>>
                  # <<cwrites[j].from_entry_id, cwrites[j].to_entry_id,
                      cwrites[j].relationship_type>>

\* C21: in a run of reconstruct_dataset_workflow, when an edge write has been
\* attempted the Dataset node and every Entry node of the run are written,
\* every extracted record is normalised and the edges are those inferred
\* from the whole normalised, classified entry list.
C21_NodesBeforeEdges ==
    edgeTried > 0 =>
        /\ workflow_entries = Normalize(raw_entries)
        /\ nodeTried = Len(workflow_entries)
        /\ failedNode = 0
        /\ dataset_identifier \in DOMAIN datasetNodes
        /\ \A k \in 1..Len(workflow_entries) :
              EntryNodesWith(workflow_entries[k].entry_id) >= 1
        /\ relationships = _infer_workflow_relationships(workflow_entries)

\* An edge between two entries of one upload has been written
C21_Witness ==
    /\ edgeOk > 0
    /\ Len(workflow_entries) >= 2
    /\ nodeTried = Len(workflow_entries)

(***************************************************************************)
(* Claims about the normalisation loop (SpecNormalize)                     *)
(***************************************************************************)
\* C22: the WorkflowEntry list the normalisation loop builds holds each
\* entry_id at most once, whatever records the service returned.
C22_NormalizedIdsAreUnique ==
    npc = "done" => IdsDistinct(nentries)

\* C23: in the list _sort_entries_by_execution_order returns, an entry whose
\* entry_type holds no stage keyword comes after every structural
\* optimization entry and before every post-processing/analysis entry.
C23_DefaultIsMiddleBucket ==
    ipc = "done" =>
        \A i, j \in 1..Len(isorted) :
            /\ (/\ KeywordsIn(isorted[i].entry_type) = {}
                /\ "analysis" \in KeywordsIn(isorted[j].entry_type)) => i < j
            /\ (/\ "optimization" \in KeywordsIn(isorted[i].entry_type)
                /\ KeywordsIn(isorted[j].entry_type) = {}) => i < j

\* The stage the classifier assigns to an entry type (the tests of
\* execution_priority)
ClassifierStage(entry_type) ==
    LET kw == KeywordsIn(entry_type) IN
    IF "geometry" \in kw \/ "optimization" \in kw THEN "structural"
    ELSE IF "scf" \in kw \/ "dft" \in kw THEN "electronic_structure"
    ELSE IF "dos" \in kw \/ "band" \in kw THEN "derived_property"
    ELSE IF "analysis" \in kw \/ "post" \in kw THEN "post_processing"
    ELSE "none"

\* Output-like and input-like files in a normalised file summary
HasOutputLike(fs) == Len(fs.output_files) > 0
HasInputLike(fs) == Len(fs.input_files) > 0

\* A file summary whose has_input_files / has_output_files values, if any,
\* say what its file lists say
SummaryIsCoherent(fs) ==
    /\ FsFlag(fs, "has_input_files") = HasInputLike(fs)
    /\ FsFlag(fs, "has_output_files") = HasOutputLike(fs)

\* The type the first matching rule gives
TypeByRuleOrder(from_entry, to_entry) ==
    IF /\ ClassifierStage(from_entry.entry_type) = "structural"
       /\ ClassifierStage(to_entry.entry_type) = "electronic_structure"
    THEN "PROVIDES_STRUCTURE"
    ELSE IF /\ ClassifierStage(from_entry.entry_type) = "electronic_structure"
            /\ ClassifierStage(to_entry.entry_type) = "derived_property"
    THEN "PROVIDES_ELECTRONIC_STRUCTURE"
    ELSE IF from_entry.entry_type = to_entry.entry_type THEN "SIMILAR_CALCULATION"
    ELSE IF HasOutputLike(from_entry.file_structure)
            /\ HasInputLike(to_entry.file_structure)
    THEN "PROVIDES_INPUT_DATA"
    ELSE "WORKFLOW_STEP"

\* The sequential edges of a result, and the entry an id stands for
SequentialEdgesOf(edges) ==
    {k \in 1..Len(edges) : "upload_cluster" \in DOMAIN edges[k].properties}

EntryWithId(entries, id) ==
    entries[CHOOSE k \in 1..Len(entries) : entries[k].entry_id = id]

\* C24: every sequential edge has the type of the first matching rule, in
\* the order structural -> electronic structure, electronic structure ->
\* derived property, identical entry_type, output-like -> input-like files,
\* workflow step (entries with distinct ids and coherent file summaries).
C24_TypeByFirstMatchingRule ==
    (/\ ipc = "done"
     /\ IdsDistinct(ientries)
     /\ \A k \in 1..Len(ientries) : SummaryIsCoherent(ientries[k].file_structure)) =>
        \A k \in SequentialEdgesOf(iedges) :
            iedges[k].relationship_type =
                TypeByRuleOrder(EntryWithId(ientries, iedges[k].from_entry_id),
                                EntryWithId(ientries, iedges[k].to_entry_id))

\* The confidence of the stated formula, in tenths
ConfidenceByFormula(from_entry, to_entry) ==
    Min(10,
        5 + (IF from_entry.formula # "" /\ from_entry.formula = to_entry.formula
             THEN 3 ELSE 0)
          + (IF HasOutputLike(from_entry.file_structure)
                /\ HasInputLike(to_entry.file_structure)
             THEN 2 ELSE 0)
          + (IF _are_compatible_entry_types(from_entry.entry_type, to_entry.entry_type)
             THEN 2 ELSE 0))

\* C25: the confidence of every sequential edge between normalised entries
\* is min(1.0, 0.5 + 0.3 for a shared non-empty formula + 0.2 for a
\* predecessor with output-like files and a successor with input-like files
\* + 0.2 for a compatible type pair), and lies in [0.0, 1.0].
C25_ConfidenceFollowsFormula ==
    (npc = "done" /\ IdsDistinct(nentries)) =>
        \A k \in SequentialEdgesOf(nedges) :
            /\ nedges[k].properties.confidence =
                  ConfidenceByFormula(EntryWithId(nentries, nedges[k].from_entry_id),
                                      EntryWithId(nentries, nedges[k].to_entry_id))
            /\ nedges[k].properties.confidence \in 0..10

\* C29: every relationship _infer_workflow_relationships returns, sequential
\* or cross-group, has a reasoning property that is a non-empty string.
C29_EdgesCarryReasoning ==
    ipc = "done" =>
        \A k \in 1..Len(iedges) :
            /\ "reasoning" \in DOMAIN iedges[k].properties
            /\ iedges[k].properties.reasoning # ""

\* Number of relationships of the run with this (from, to, type) triple
InferredCopies(key) ==
    Cardinality({k \in 1..Len(relationships) :
                    <<relationships[k].from_entry_id, relationships[k].to_entry_id,
                      relationships[k].relationship_type>> = key})

\* C30: after k complete runs without a failure over the same Entry set the
\* store holds exactly k edges for each inferred relationship.
C30_OneEdgePerWritePerRun ==
    (/\ rpc = "done"
     /\ failures = 0
     /\ runNo = 1 \/ (prevDone /\ workflow_entries = prevEntries)) =>
        /\ \A k \in 1..Len(relationships) :
              LET key == <<relationships[k].from_entry_id, relationships[k].to_entry_id,
                           relationships[k].relationship_type>>
              IN  /\ key \in DOMAIN relEdges
                  /\ relEdges[key] = runNo * InferredCopies(key)
        /\ \A key \in DOMAIN relEdges : InferredCopies(key) > 0

\* The sizes at which an element occurs in the store, and the total atom
\* counts of the stored entries
SizesOf(e) ==
    {parse_formula_carefully(graph_entries[k].formula)[e] :
        k \in {m \in 1..Len(graph_entries) : e \in RowElements(graph_entries[m])}}

StoredElements == UNION {RowElements(graph_entries[k]) : k \in 1..Len(graph_entries)}

StoredTotals == {RowSize(graph_entries[k]) : k \in 1..Len(graph_entries)}

\* No element has two sizes, yet the entries have two or more total sizes
OnlyGlobalSeriesPossible ==
    /\ \A e \in StoredElements : Cardinality(SizesOf(e)) <= 1
    /\ Cardinality(StoredTotals) >= 2

\* C26: when no element has entries at two distinct sizes but the entries
\* have two or more distinct total atom counts, one run of
\* find_cluster_size_relationships or find_and_create_cluster_relationships
\* creates one CLUSTER_SIZE_SERIES edge per pair of consecutive total sizes,
\* from the smaller to the larger.
C26_GlobalSeriesIsTheFallback ==
    (/\ OneCleanScriptRun
     /\ cscript \in {"cluster_size", "find_variations"}
     /\ OnlyGlobalSeriesPossible) =>
        /\ EdgeCount(SeriesKeys) = Cardinality(StoredTotals) - 1
        /\ \A key \in SeriesKeys :
              RowSize(RowWithId(key[1])) < RowSize(RowWithId(key[2]))

(***************************************************************************)
(* Claims about the analysis tools (SpecTools)                             *)
(***************************************************************************)
\* C27: every CLUSTER_SIZE_SERIES edge memgraph_analyze_cluster_patterns
\* creates has a confidence in [0.75, 0.95], as the edges of the series
\* scripts have.
C27_SeriesConfidenceInBand ==
    \A e \in toolEdges :
        e.relationship_type = "CLUSTER_SIZE_SERIES" =>
            e.properties.confidence \in 75..95

\* The members of a periodic group, and the stored entries of an element
FamilyMembers(group_name) ==
    UNION {{periodic_groups[g].elements[k] : k \in 1..Len(periodic_groups[g].elements)} :
              g \in {h \in 1..Len(periodic_groups) : periodic_groups[h].name = group_name}}

EntriesOf(element) ==
    {graph_entries[k].entry_id :
        k \in {m \in 1..Len(graph_entries) : RowElements(graph_entries[m]) = {element}}}

\* C28: the elements of the two entries of a PERIODIC_TREND edge, as the
\* formula parser reads them, are both members of the edge's family list;
\* and after a complete call with create_relationships = true and no group
\* filter, stored silver and rhodium entries (same size, different elements)
\* are joined by a PERIODIC_TREND edge.
C28_PeriodicEdgesJoinFamilyMembers ==
    /\ \A e \in toolEdges :
          e.relationship_type = "PERIODIC_TREND" =>
              /\ RowElements(RowWithId(e.from_entry_id))
                    \subseteq FamilyMembers(e.properties.group)
              /\ RowElements(RowWithId(e.to_entry_id))
                    \subseteq FamilyMembers(e.properties.group)
    /\ (/\ lastTool.name = "memgraph_analyze_periodic_trends"
        /\ lastTool.arguments.create_relationships
        /\ lastTool.arguments.group_filter = ""
        /\ failures = 0
        /\ EntriesOf(<<"A", "g">>) # {}
        /\ EntriesOf(<<"R", "h">>) # {}) =>
          \E e \in toolEdges :
              /\ e.relationship_type = "PERIODIC_TREND"
              /\ {e.from_entry_id, e.to_entry_id} \cap EntriesOf(<<"A", "g">>) # {}
              /\ {e.from_entry_id, e.to_entry_id} \cap EntriesOf(<<"R", "h">>) # {}

====
